---- MODULE Spec2Model ----
(***************************************************************************)
(* Model of the dremio-benchmark pipeline: the Job Client's poll loop,     *)
(* the benchmark driver and its worker pool, the pipeline orchestrator     *)
(* (main.py) and the per-step configuration validation.                    *)
(***************************************************************************)
EXTENDS Integers, Sequences, FiniteSets, TLC

(***************************************************************************)
(* Bounds of the model.                                                    *)
(***************************************************************************)
\* largest `timeout` argument given to _poll_job_status
MaxTimeout == 2
\* most status requests followed in one poll
MaxPolls == 3
\* largest time one blocking call (request, sleep overshoot) may take
MaxLatency == 2
\* latest clock value at which a poll is started
MaxStart == 1
\* most step names given with --steps
MaxSteps == 4
\* most required settings absent from a loaded configuration
MaxMissing == 1
\* largest --concurrency (size of the worker pool)
MaxWorkers == 2
\* largest --iterations
MaxIterations == 2
\* most requests of one benchmark run that fail or end in a state other than
\* COMPLETED
MaxFaults == 1
\* largest exit status of a child process
MaxExitCode == 2
\* largest MAX_RETRIES of the ingester
MaxRetries == 3
\* largest RETRY_DELAY of the ingester
MaxDelay == 2
\* number of latest status responses of execute_query the model remembers
MaxSeen == 3
\* most calls of _apply_environment_overrides on one Config
MaxApplications == 2
\* most (scale, format) pairs create_tables.py generates statements for
MaxSchemas == 2
\* most rows of a results file given to the report
MaxRows == 2
\* largest execution_time of a row, in seconds
MaxTime == 2
\* most files of the test_data directory
MaxFiles == 2

VARIABLES
    \* ---- _poll_job_status ----
    clock,          \* time.time()
    start_time,     \* local start_time of _poll_job_status
    timeout,        \* argument timeout
    observed,       \* responses of the status requests issued so far, in order
    elapsed_seen,   \* per status request: time since start_time when it was
                    \* sent and when its response arrived
    poll_pc,        \* "request", "sleep", "returned", "raised", "idle"
    poll_result,    \* the value returned by _poll_job_status
    \* ---- main.py: the pipeline orchestrator ----
    args_steps,     \* args.steps, the --steps argument as given
    config,         \* the dictionary load_config returned
    steps,          \* local `steps` of main: the resolved list iterated
    step_index,     \* number of steps the for loop has gone through
    step_results,   \* outcome of each step handler call so far, in order
    commands,       \* descriptions of the commands given to run_command so far
    pipe_pc,        \* "start", "loop", "exited", "idle"
    unhandled,      \* an exception no handler caught has ended the process
    exit_code,      \* exit status of the process; -1 while it runs
    \* ---- Config.validate ----
    config_data,    \* Config.config_data
    val_step,       \* argument step
    val_result,     \* the pair validate returned
    val_pc,         \* "call", "done", "idle"
    \* ---- run_benchmarks and the DremioBenchmark client ----
    token,          \* DremioBenchmark.token; "None" before a login succeeded
    headers,        \* DremioBenchmark.headers["Authorization"]; <<>> when unset
    concurrency,    \* argument concurrency
    iterations,     \* argument iterations
    queries,        \* names of the loaded queries, in the order of the dict
    iteration,      \* number of iterations of `for i in range(iterations)` begun
    pool_queue,     \* tasks submitted to the executor that no thread took yet
    worker,         \* per pool thread: where it is in run_query, and its query
    results,        \* the list `results` of run_benchmarks
    bench_pc,       \* "loop", "done", "idle"
    token_writes,   \* number of assignments to DremioBenchmark.token so far
    racing_write,   \* a login wrote token and headers while another thread
                    \* was between sending a request and reading its response
    faults,         \* requests that failed or ended other than COMPLETED so far
    login_failures, \* calls of login() that returned False so far
    relogin,        \* a POST /login was sent after a login() had returned False
    profile_requests, \* GET /job/{id}/profile requests sent so far
    bench_exit,     \* exit status of the run_benchmarks.py process; -1 while it runs
    \* ---- CommandExecutor (utils/command.py) ----
    cmd_kind,       \* "shell": run_shell_command, "python": run_python_operation
    capture_output, \* argument capture_output of run_shell_command
    cmd_outcome,    \* what subprocess.run / the operation does when called
    cmd_result,     \* the tuple returned to the caller
    cmd_pc,         \* "call", "returned", "raised", "idle"
    \* ---- DremioIngester._make_request (ingest_test_data.py) ----
    max_retries,    \* self.max_retries
    retry_delay,    \* self.retry_delay
    attempts,       \* outcome of each session.request call so far, in order
    sleeps,         \* argument of each time.sleep call so far, in order
    retry_pc,       \* "request", "returned", "raised", "idle"
    retry_error,    \* class of the exception that left _make_request
    \* ---- DremioClient.execute_query (dremio_benchmark.py, prepare_tpcds_data.py) ----
    exec_client,    \* the module whose DremioClient is running
    exec_pc,        \* "submit", "request", "sleep", "returned", "raised", "idle"
    exec_seen,      \* the latest status responses, oldest first
    \* ---- Config.load_from_file and the environment overrides ----
    cfg_file,       \* the configuration file: absent, or the document it holds
    environ,        \* os.environ: per variable its value, or "UNSET"
    loaded_data,    \* self.config_data of the Config that loads the file
    load_pc,        \* "load", "loaded", "failed", "idle"
    applications,   \* calls of _apply_environment_overrides so far
    resolved_once,  \* loaded_data after the first such call
    \* ---- the ddl step: run_ddl_generation_step and create_tables.py ----
    execute_ddl,    \* config["execute_ddl"]: --execute is given to create_tables.py
    ddl_statements, \* schema names of the generated statements, in dict order
    ddl_cluster,    \* the cluster whose create_tables.py process is due: "a", "b"
    ddl_token,      \* DremioDDL.token of the running process; "None" when unset
    ddl_next,       \* statements the loop of the running process has gone through
    ddl_log,        \* per executed statement: cluster, schema and how it ended
    ddl_exit,       \* exit status of the process of each cluster; -1 before its end
    ddl_success,    \* what run_ddl_generation_step returned
    ddl_pc,         \* "spawn", "execute", "returned", "idle"
    \* ---- upload_to_hdfs.py ----
    up_hadoop_bin,  \* the command line holds --simple-auth-hadoop-bin and
                    \* --kerberized-hadoop-bin, as main.py builds it
    up_units,       \* the (scale, format) pairs of the two loops of main
    skip_simple_auth, \* args.skip_simple_auth
    skip_kerberized,  \* args.skip_kerberized
    os_environ,     \* os.environ: HADOOP_USER_NAME and HADOOP_CONF_DIR
    env_before,     \* os.environ when the upload function running was entered
    up_call,        \* upload function calls main has begun
    up_table,       \* tables the loop of the running call has gone through
    uploads,        \* per upload_directory call: unit, cluster, table, result
    up_returns,     \* upload function calls that have returned
    up_pc,          \* "parse", "main", "tables", "exited", "idle"
    up_exit,        \* exit status of the process; -1 while it runs
    \* ---- generate_report.py: generate_comparison_report ----
    df_a,           \* rows of the results of cluster A
    df_b,           \* rows of the results of cluster B
    summary_a,      \* generate_summary_statistics(df_a): avg_execution_time per query
    summary_b,      \* generate_summary_statistics(df_b)
    comparison,     \* the frame generate_comparison_report returned, per query
    rep_pc,         \* "summarize", "compare", "returned", "idle"
    \* ---- ingest_test_data.py: main ----
    env_max_retries, \* MAX_RETRIES as load_env reads it
    total_files,    \* len(files): the files test_data holds
    ing_index,      \* files whose turn of the outer loop has ended
    ing_attempt,    \* `attempt` of the inner loop for the file in turn
    ing_calls,      \* per file, the results of its ingest_file calls, in order
    successful_ingestions, \* the counter of main
    failed_ingestions,     \* the list of main: indices of the files in it
    ing_error,      \* what reached a sys.exit(1) outside the summary, or "none"
    ing_pc,         \* "start", "file", "attempt", "cleanup", "summary", "exited", "idle"
    ing_exit        \* exit status of the process; -1 while it runs

pollVars == <<clock, start_time, timeout, observed, elapsed_seen, poll_pc, poll_result>>

pipeVars == <<args_steps, config, steps, step_index, step_results, commands,
              pipe_pc, unhandled, exit_code>>

valVars == <<config_data, val_step, val_result, val_pc>>

benchVars == <<token, headers, concurrency, iterations, queries, iteration,
               pool_queue, worker, results, bench_pc, token_writes, racing_write,
               faults, login_failures, relogin, profile_requests, bench_exit>>

cmdVars == <<cmd_kind, capture_output, cmd_outcome, cmd_result, cmd_pc>>

retryVars == <<max_retries, retry_delay, attempts, sleeps, retry_pc, retry_error>>

execVars == <<exec_client, exec_pc, exec_seen>>

cfgVars == <<cfg_file, environ, loaded_data, load_pc, applications, resolved_once>>

ddlVars == <<execute_ddl, ddl_statements, ddl_cluster, ddl_token, ddl_next,
             ddl_log, ddl_exit, ddl_success, ddl_pc>>

upVars == <<up_hadoop_bin, up_units, skip_simple_auth, skip_kerberized,
            os_environ, env_before, up_call, up_table, uploads, up_returns,
            up_pc, up_exit>>

repVars == <<df_a, df_b, summary_a, summary_b, comparison, rep_pc>>

ingVars == <<env_max_retries, total_files, ing_index, ing_attempt, ing_calls,
             successful_ingestions, failed_ingestions, ing_error, ing_pc,
             ing_exit>>

vars == <<pollVars, pipeVars, valVars, benchVars, cmdVars, retryVars,
          execVars, cfgVars, ddlVars, upVars, repVars, ingVars>>

(***************************************************************************)
(* The Job Client: remote responses and the poll loop.                     *)
(***************************************************************************)
\* jobState values the remote service answers with; "NONE" is a response
\* body without a jobState key (job_status.get("jobState") is None)
RemoteStates == {"RUNNING", "COMPLETED", "FAILED", "CANCELED", "NONE"}

\* classes of the exceptions requests.get / raise_for_status raise
ExceptionClasses == {"ConnectionError", "HTTPError"}

\* the message an exception of each class was constructed with
ExcMessage(cls) == IF cls = "ConnectionError" THEN "connection refused"
                   ELSE "503 Server Error"

\* outcome of one status request: a JSON body, or a raised exception
StatusResponses ==
    [kind : {"json"}, jobState : RemoteStates, cls : {"-"}, msg : {""}]
    \cup {[kind |-> "exc", jobState |-> "-", cls |-> c, msg |-> ExcMessage(c)] :
             c \in ExceptionClasses}

\* str(e)
str(e) == e.msg

NoStatus == [jobState |-> "-", error |-> ""]

\* the list in `job_status.get("jobState") in [...]`
TerminalStatesMutRunning == {"COMPLETED", "FAILED", "CANCELED", "RUNNING"}
TerminalStatesMutMissing == {"COMPLETED", "FAILED", "CANCELED", "NONE"}
TerminalStates == {"COMPLETED", "FAILED", "CANCELED"}

\* `except Exception as e` around the body of the poll loop
CatchesOnlyHTTPError(e) == e.cls = "HTTPError"
Catches(e) == e.cls \in ExceptionClasses

\* `time.time() - start_time > timeout`
TimedOutMutGeq(now, start, limit) == now - start >= limit
TimedOutMutSwapped(now, start, limit) == start - now > limit
TimedOut(now, start, limit) == now - start > limit

\* default argument interval=1 of _poll_job_status
interval == 1

\* One pass of the `while True` body up to the sleep: what the loop does with
\* the outcome `resp` of the status request, at time `now`.
\*   ret = TRUE: the function returns `status`; raised = TRUE: the exception
\*   leaves the function; otherwise the loop sleeps and polls again.
PollStepMutDeadlineFirst(resp, now, start, limit) ==
    IF resp.kind = "exc"
    THEN IF Catches(resp)
         THEN [ret |-> TRUE, raised |-> FALSE,
               status |-> [jobState |-> "ERROR", error |-> str(resp)]]
         ELSE [ret |-> FALSE, raised |-> TRUE, status |-> NoStatus]
    ELSE IF TimedOut(now, start, limit)
    THEN [ret |-> TRUE, raised |-> FALSE,
          status |-> [jobState |-> "TIMEOUT", error |-> ""]]
    ELSE IF resp.jobState \in TerminalStates
    THEN [ret |-> TRUE, raised |-> FALSE,
          status |-> [jobState |-> resp.jobState, error |-> ""]]
    ELSE [ret |-> FALSE, raised |-> FALSE, status |-> NoStatus]
PollStep(resp, now, start, limit) ==
    IF resp.kind = "exc"
    THEN IF Catches(resp)
         THEN [ret |-> TRUE, raised |-> FALSE,
               status |-> [jobState |-> "ERROR", error |-> str(resp)]]
         ELSE [ret |-> FALSE, raised |-> TRUE, status |-> NoStatus]
    ELSE IF resp.jobState \in TerminalStates
    THEN [ret |-> TRUE, raised |-> FALSE,
          status |-> [jobState |-> resp.jobState, error |-> ""]]
    ELSE IF TimedOut(now, start, limit)
    THEN [ret |-> TRUE, raised |-> FALSE,
          status |-> [jobState |-> "TIMEOUT", error |-> ""]]
    ELSE [ret |-> FALSE, raised |-> FALSE, status |-> NoStatus]

PollInit ==
    /\ clock \in 0..MaxStart
    /\ start_time = clock
    /\ timeout \in 0..MaxTimeout
    /\ observed = <<>>
    /\ elapsed_seen = <<>>
    /\ poll_pc = "request"
    /\ poll_result = NoStatus

\* requests.get(job_url) and the checks that follow it
PollRequest ==
    /\ poll_pc = "request"
    /\ Len(observed) < MaxPolls
    /\ \E resp \in StatusResponses, d \in 0..MaxLatency :
         LET now == clock + d
             out == PollStep(resp, now, start_time, timeout)
         IN  /\ clock' = now
             /\ observed' = Append(observed, resp)
             /\ elapsed_seen' = Append(elapsed_seen,
                    [sent |-> clock - start_time, recv |-> now - start_time])
             /\ poll_pc' = IF out.raised THEN "raised"
                           ELSE IF out.ret THEN "returned" ELSE "sleep"
             /\ poll_result' = out.status
    /\ UNCHANGED <<start_time, timeout>>
    /\ UNCHANGED <<pipeVars, valVars, benchVars, cmdVars, retryVars,
                   execVars, cfgVars, ddlVars, upVars, repVars, ingVars>>

\* time.sleep(interval)
PollSleep ==
    /\ poll_pc = "sleep"
    /\ \E d \in 0..MaxLatency : clock' = clock + interval + d
    /\ poll_pc' = "request"
    /\ UNCHANGED <<start_time, timeout, observed, elapsed_seen, poll_result>>
    /\ UNCHANGED <<pipeVars, valVars, benchVars, cmdVars, retryVars,
                   execVars, cfgVars, ddlVars, upVars, repVars, ingVars>>

PollNext == PollRequest \/ PollSleep

\* the poll loop is not running
PollIdle ==
    /\ clock = 0
    /\ start_time = 0
    /\ timeout = 0
    /\ observed = <<>>
    /\ elapsed_seen = <<>>
    /\ poll_pc = "idle"
    /\ poll_result = NoStatus

(***************************************************************************)
(* The pipeline orchestrator (main.py).                                    *)
(***************************************************************************)
PIPELINE_STEPS == <<"data", "convert", "upload", "ddl", "cross", "benchmark", "report">>

StepNames == {PIPELINE_STEPS[i] : i \in 1..Len(PIPELINE_STEPS)}

\* the settings the step handlers test before building their command
ConfigKeys == {"data_generation.dsdgen_path",
               "hdfs.simple_auth.hadoop_conf",
               "hdfs.kerberized.hadoop_conf",
               "hdfs.kerberized.keytab",
               "hdfs.kerberized.principal",
               "clusters.dremio_a.host",
               "clusters.dremio_b.host",
               "cross_cluster.password"}

\* load_config: {} when the file is absent or unreadable (loaded = FALSE);
\* otherwise the file's content with the overrides applied, of which the
\* model keeps the settings that hold a truthy value (set).
Configs ==
    {[loaded |-> FALSE, set |-> {}]}
    \cup {[loaded |-> TRUE, set |-> ConfigKeys \ m] :
             m \in {x \in SUBSET ConfigKeys : Cardinality(x) <= MaxMissing}}

\* `not config`
IsEmptyConfig(cfg) == ~cfg.loaded

\* the `if not <section>.get(<key>): return False` tests of each handler
HandlerChecksMutNoPrincipal(step) ==
    CASE step = "data" -> {"data_generation.dsdgen_path"}
      [] step = "upload" -> {"hdfs.simple_auth.hadoop_conf",
                             "hdfs.kerberized.hadoop_conf",
                             "hdfs.kerberized.keytab"}
      [] step \in {"ddl", "benchmark"} -> {"clusters.dremio_a.host",
                                           "clusters.dremio_b.host"}
      [] step = "cross" -> {"clusters.dremio_a.host", "clusters.dremio_b.host",
                            "cross_cluster.password"}
      [] OTHER -> {}
HandlerChecks(step) ==
    CASE step = "data" -> {"data_generation.dsdgen_path"}
      [] step = "upload" -> {"hdfs.simple_auth.hadoop_conf",
                             "hdfs.kerberized.hadoop_conf",
                             "hdfs.kerberized.keytab",
                             "hdfs.kerberized.principal"}
      [] step \in {"ddl", "benchmark"} -> {"clusters.dremio_a.host",
                                           "clusters.dremio_b.host"}
      [] step = "cross" -> {"clusters.dremio_a.host", "clusters.dremio_b.host",
                            "cross_cluster.password"}
      [] OTHER -> {}

\* the description of each run_command call of a handler, in order
HandlerCommands(step) ==
    CASE step = "data" -> <<"Data generation">>
      [] step = "convert" -> <<"Data conversion">>
      [] step = "upload" -> <<"HDFS upload">>
      [] step = "ddl" -> <<"DDL generation for Dremio A", "DDL generation for Dremio B">>
      [] step = "cross" -> <<"Cross-cluster setup">>
      [] step = "benchmark" -> <<"Benchmarking on Dremio A", "Benchmarking on Dremio B",
                                 "Cross-cluster benchmarking">>
      [] OTHER -> <<"Report generation">>

\* run_<step>_step(config, dirs): `ok[i]` is the success flag run_command
\* returns for the handler's i-th command.  A handler whose test of a required
\* setting fails returns False before running anything; otherwise it runs all
\* its commands and returns the conjunction of their flags.
RunHandler(step, cfg, ok) ==
    IF HandlerChecks(step) \subseteq cfg.set
    THEN [success |-> \A i \in 1..Len(HandlerCommands(step)) : ok[i],
          ran |-> HandlerCommands(step)]
    ELSE [success |-> FALSE, ran |-> <<>>]

\* `steps = args.steps; if "all" in steps: steps = PIPELINE_STEPS.copy()`
ResolveSteps(requested) ==
    IF \E i \in 1..Len(requested) : requested[i] = "all"
    THEN PIPELINE_STEPS
    ELSE requested

\* the exit status: sys.exit(1) (also what an uncaught exception gives), or
\* 0 when main returns
ExitStatusMutAlwaysZero(failed) == 0
ExitStatus(failed) == IF failed THEN 1 ELSE 0

\* `if not run_<step>_step(config, dirs): ...; sys.exit(1)`
ExitsOnFailureMutConvert(step, success) == ~success /\ step # "convert"
ExitsOnFailure(step, success) == ~success

\* the step lists --steps accepts here: "all", or up to MaxSteps different
\* step names in any order
StepRequests ==
    {<<"all">>}
    \cup {r \in UNION {[1..n -> StepNames] : n \in 1..MaxSteps} :
             \A i, j \in 1..Len(r) : i # j => r[i] # r[j]}

PipeInit ==
    /\ args_steps \in StepRequests
    /\ config \in Configs
    /\ steps = <<>>
    /\ step_index = 0
    /\ step_results = <<>>
    /\ commands = <<>>
    /\ pipe_pc = "start"
    /\ unhandled = FALSE
    /\ exit_code = -1

\* main() up to the loop: load_config, the empty-configuration exit, the
\* resolution of the steps and create_directories (os.makedirs, which may
\* raise: the exception is handled nowhere and ends the process with 1)
PipeStart ==
    /\ pipe_pc = "start"
    /\ \/ /\ IsEmptyConfig(config)
          /\ pipe_pc' = "exited"
          /\ exit_code' = ExitStatus(TRUE)
          /\ UNCHANGED <<steps, unhandled>>
       \/ /\ ~IsEmptyConfig(config)
          /\ steps' = ResolveSteps(args_steps)
          /\ \E dirs_created \in BOOLEAN :
                IF dirs_created
                THEN pipe_pc' = "loop" /\ exit_code' = exit_code
                     /\ unhandled' = FALSE
                ELSE pipe_pc' = "exited" /\ exit_code' = ExitStatus(TRUE)
                     /\ unhandled' = TRUE
    /\ UNCHANGED <<args_steps, config, step_index, step_results, commands>>
    /\ UNCHANGED <<pollVars, valVars, benchVars, cmdVars, retryVars,
                   execVars, cfgVars, ddlVars, upVars, repVars, ingVars>>

\* one pass of `for step in steps`: the handler of the step and the exit on
\* its failure; after the last step main returns and the process ends with 0
PipeStep ==
    /\ pipe_pc = "loop"
    /\ step_index < Len(steps)
    /\ LET step == steps[step_index + 1]
       IN \E ok \in [1..Len(HandlerCommands(step)) -> BOOLEAN] :
            LET r == RunHandler(step, config, ok)
            IN  /\ step_results' = Append(step_results,
                                          [step |-> step, success |-> r.success])
                /\ commands' = commands \o r.ran
                /\ step_index' = step_index + 1
                /\ IF ExitsOnFailure(step, r.success)
                   THEN pipe_pc' = "exited" /\ exit_code' = ExitStatus(TRUE)
                   ELSE IF step_index + 1 = Len(steps)
                   THEN pipe_pc' = "exited" /\ exit_code' = ExitStatus(FALSE)
                   ELSE pipe_pc' = "loop" /\ exit_code' = exit_code
    /\ UNCHANGED <<args_steps, config, steps, unhandled>>
    /\ UNCHANGED <<pollVars, valVars, benchVars, cmdVars, retryVars,
                   execVars, cfgVars, ddlVars, upVars, repVars, ingVars>>

PipeNext == PipeStart \/ PipeStep

\* the orchestrator is not running
PipeIdle ==
    /\ args_steps = <<>>
    /\ config = [loaded |-> FALSE, set |-> {}]
    /\ steps = <<>>
    /\ step_index = 0
    /\ step_results = <<>>
    /\ commands = <<>>
    /\ pipe_pc = "idle"
    /\ unhandled = FALSE
    /\ exit_code = -1


(***************************************************************************)
(* Config.validate (utils/config.py).                                      *)
(***************************************************************************)
\* the settings validate reads
ValidatedKeys == {"data_generation.dsdgen_path",
                  "hdfs.simple_auth.hadoop_conf",
                  "hdfs.kerberized.hadoop_conf",
                  "hdfs.kerberized.keytab",
                  "hdfs.kerberized.principal",
                  "clusters.dremio_a.host",
                  "clusters.dremio_b.host",
                  "pipeline.query_dir"}

\* what a setting holds: no such key, a falsy value ("" or null), a truthy one
SettingValues == {"MISSING", "EMPTY", "SET"}

\* A configuration dictionary: the value of every setting validate reads, and
\* whether the dictionary has any other content (a section without these
\* settings, such as `report`, or an empty section).
ConfigDatas == [leaf : [ValidatedKeys -> SettingValues], other : BOOLEAN]

\* `not self.config_data`: the dictionary has no key at all
IsEmptyDict(cfg) == ~cfg.other /\ \A k \in ValidatedKeys : cfg.leaf[k] = "MISSING"

\* `not <section>.get(<key>)`
Falsy(cfg, key) == cfg.leaf[key] # "SET"

\* `if <test>: errors.append(<message>)`
AppendIf(errors, test, message) == IF test THEN Append(errors, message) ELSE errors

\* the `step == "data"` branch
ValidateData(cfg) ==
    AppendIf(<<>>, Falsy(cfg, "data_generation.dsdgen_path"),
             "data_generation.dsdgen_path is required for data generation step")

\* the `step == "upload"` branch
ValidateUploadMutFirstOnly(cfg) ==
    IF Falsy(cfg, "hdfs.simple_auth.hadoop_conf")
    THEN <<"hdfs.simple_auth.hadoop_conf is required for upload step">>
    ELSE IF Falsy(cfg, "hdfs.kerberized.hadoop_conf")
    THEN <<"hdfs.kerberized.hadoop_conf is required for upload step">>
    ELSE IF Falsy(cfg, "hdfs.kerberized.keytab")
    THEN <<"hdfs.kerberized.keytab is required for upload step">>
    ELSE IF Falsy(cfg, "hdfs.kerberized.principal")
    THEN <<"hdfs.kerberized.principal is required for upload step">>
    ELSE <<>>
ValidateUpload(cfg) ==
    LET e1 == AppendIf(<<>>, Falsy(cfg, "hdfs.simple_auth.hadoop_conf"),
                       "hdfs.simple_auth.hadoop_conf is required for upload step")
        e2 == AppendIf(e1, Falsy(cfg, "hdfs.kerberized.hadoop_conf"),
                       "hdfs.kerberized.hadoop_conf is required for upload step")
        e3 == AppendIf(e2, Falsy(cfg, "hdfs.kerberized.keytab"),
                       "hdfs.kerberized.keytab is required for upload step")
    IN  AppendIf(e3, Falsy(cfg, "hdfs.kerberized.principal"),
                 "hdfs.kerberized.principal is required for upload step")

\* the `step in ["ddl", "cross", "benchmark"]` branch
ValidateDremio(cfg, step) ==
    LET e1 == AppendIf(<<>>, Falsy(cfg, "clusters.dremio_a.host"),
                       "clusters.dremio_a.host is required")
        e2 == AppendIf(e1, Falsy(cfg, "clusters.dremio_b.host"),
                       "clusters.dremio_b.host is required")
    IN  AppendIf(e2, step = "benchmark" /\ Falsy(cfg, "pipeline.query_dir"),
                 "pipeline.query_dir is required for benchmark step")

\* Config.validate(step); validate_config(config, step) merges `config` into
\* an empty Config and calls it
Validate(cfg, step) ==
    IF IsEmptyDict(cfg)
    THEN [valid |-> FALSE, errors |-> <<"Configuration is empty">>]
    ELSE LET errors == CASE step = "data" -> ValidateData(cfg)
                         [] step = "upload" -> ValidateUpload(cfg)
                         [] step \in {"ddl", "cross", "benchmark"} ->
                                ValidateDremio(cfg, step)
                         [] OTHER -> <<>>
         IN  [valid |-> Len(errors) = 0, errors |-> errors]

NoValidation == [valid |-> FALSE, errors |-> <<>>]

ValInit ==
    /\ config_data \in ConfigDatas
    /\ val_step \in StepNames
    /\ val_result = NoValidation
    /\ val_pc = "call"

ValidateCall ==
    /\ val_pc = "call"
    /\ val_result' = Validate(config_data, val_step)
    /\ val_pc' = "done"
    /\ UNCHANGED <<config_data, val_step>>
    /\ UNCHANGED <<pollVars, pipeVars, benchVars, cmdVars, retryVars,
                   execVars, cfgVars, ddlVars, upVars, repVars, ingVars>>

ValNext == ValidateCall

\* validate is not being called
ValIdle ==
    /\ config_data = [leaf |-> [k \in ValidatedKeys |-> "MISSING"], other |-> FALSE]
    /\ val_step = "data"
    /\ val_result = NoValidation
    /\ val_pc = "idle"


(***************************************************************************)
(* The benchmark driver (run_benchmarks.py): run_benchmarks, its pool of   *)
(* worker threads, and DremioBenchmark.login / run_query.                  *)
(***************************************************************************)
\* the token the login endpoint hands out
Tokens == {"tokenA"}

\* f"_dremio{self.token}"
AuthorizationHeader(t) == <<"_dremio", t>>

\* `not self.token`
NoTokenMutNever(t) == FALSE
NoToken(t) == t = "None"

\* default argument timeout=3600 of DremioBenchmark._poll_job_status
BenchPollTimeout == 3600

WorkerIds == 1..MaxWorkers

\* the query files of the query directory (load_queries)
QueryNames == <<"q01", "q02">>

\* a pool thread: where it is in run_query (pc), the query it runs, the
\* number of POST /sql requests it has sent for it and the jobState that
\* _poll_job_status returned for it
IdleWorker == [pc |-> "idle", query |-> "-", submits |-> 0, state |-> "-"]

\* run_query after login: the POST /sql request is sent
SendSubmit(w) == [w EXCEPT !.pc = "submit", !.submits = @ + 1]

\* run_query with the status _poll_job_status returned: the metrics are built
\* from it, the profile is requested `if job_status.get("jobState") ==
\* "COMPLETED"`, and the metrics are returned; nothing is submitted again
AfterPollMutProfileUnlessFailed(state) == IF state # "FAILED" THEN "profile" ELSE "return"
AfterPollMutResubmitFailed(state) ==
    IF state = "COMPLETED" THEN "profile"
    ELSE IF state = "FAILED" THEN "submit" ELSE "return"
AfterPoll(state) == IF state = "COMPLETED" THEN "profile" ELSE "return"

\* a row of `results`: the metrics dictionary run_query returns
Metrics(query_name, status, error, profiled) ==
    [query_name |-> query_name, status |-> status, error |-> error,
     profiled |-> profiled]

\* execute_query: `if metrics: results.append(metrics)`; run_query returns
\* None (returned = FALSE) when the login failed
AppendMetrics(rows, returned, metrics) ==
    IF returned THEN Append(rows, metrics) ELSE rows

BenchInit ==
    /\ token = "None"
    /\ headers = <<>>
    /\ concurrency \in 1..MaxWorkers
    /\ iterations \in 1..MaxIterations
    /\ queries \in {SubSeq(QueryNames, 1, n) : n \in 0..Len(QueryNames)}
    /\ iteration = 0
    /\ pool_queue = <<>>
    /\ worker = [w \in WorkerIds |-> IdleWorker]
    /\ results = <<>>
    /\ bench_pc = "loop"
    /\ token_writes = 0
    /\ racing_write = FALSE
    /\ faults = 0
    /\ login_failures = 0
    /\ relogin = FALSE
    /\ profile_requests = 0
    /\ bench_exit = -1

AllWorkersIdleMutAny == \E w \in WorkerIds : worker[w].pc = "idle"
AllWorkersIdle == \A w \in WorkerIds : worker[w].pc = "idle"

\* One pass of `for i in range(iterations)`: the executor is created and every
\* query is submitted to it; the `with` block is left (and the next iteration
\* or the end of the loop reached) only when every task has finished.  After
\* the last iteration run_benchmarks returns and main() returns whatever the
\* results hold: the process ends with status 0.
BenchIterate ==
    /\ bench_pc = "loop"
    /\ pool_queue = <<>>
    /\ AllWorkersIdle
    /\ IF iteration < iterations
       THEN /\ iteration' = iteration + 1
            /\ pool_queue' = queries
            /\ bench_pc' = "loop"
            /\ UNCHANGED bench_exit
       ELSE /\ bench_pc' = "done"
            /\ bench_exit' = 0
            /\ UNCHANGED <<iteration, pool_queue>>
    /\ UNCHANGED <<token, headers, concurrency, iterations, queries, worker,
                   results, token_writes, racing_write, faults, login_failures,
                   relogin, profile_requests>>
    /\ UNCHANGED <<pollVars, pipeVars, valVars, cmdVars, retryVars, execVars,
                   cfgVars, ddlVars, upVars, repVars, ingVars>>

\* a pool thread takes the next task: execute_query -> run_query up to its
\* first request (`if not self.token: self.login()`, else the POST /sql)
WorkerTake(w) ==
    /\ bench_pc = "loop"
    /\ w <= concurrency
    /\ worker[w].pc = "idle"
    /\ pool_queue # <<>>
    /\ LET task == [IdleWorker EXCEPT !.query = Head(pool_queue)]
       IN  IF NoToken(token)
           THEN /\ worker' = [worker EXCEPT ![w] = [task EXCEPT !.pc = "login"]]
                /\ relogin' = (relogin \/ login_failures > 0)
           ELSE /\ worker' = [worker EXCEPT ![w] = SendSubmit(task)]
                /\ UNCHANGED relogin
    /\ pool_queue' = Tail(pool_queue)
    /\ UNCHANGED <<token, headers, concurrency, iterations, queries, iteration,
                   results, bench_pc, token_writes, racing_write, faults,
                   login_failures, profile_requests, bench_exit>>
    /\ UNCHANGED <<pollVars, pipeVars, valVars, cmdVars, retryVars, execVars,
                   cfgVars, ddlVars, upVars, repVars, ingVars>>

\* the response of POST /login arrives: login() stores the token and the
\* header and run_query goes on to POST /sql, or login() returns False and
\* run_query returns None
WorkerLogin(w) ==
    /\ worker[w].pc = "login"
    /\ \/ \E t \in Tokens :
            /\ token' = t
            /\ headers' = AuthorizationHeader(t)
            /\ token_writes' = token_writes + 1
            /\ racing_write' =
                 (racing_write \/ \E v \in WorkerIds \ {w} :
                                     worker[v].pc \in {"submit", "poll", "profile"})
            /\ worker' = [worker EXCEPT ![w] = SendSubmit(worker[w])]
            /\ UNCHANGED <<results, faults, login_failures>>
       \/ /\ faults < MaxFaults
          /\ faults' = faults + 1
          /\ login_failures' = login_failures + 1
          /\ results' = AppendMetrics(results, FALSE,
                                      Metrics(worker[w].query, "FAILED", "login failed", FALSE))
          /\ worker' = [worker EXCEPT ![w] = IdleWorker]
          /\ UNCHANGED <<token, headers, token_writes, racing_write>>
    /\ UNCHANGED <<concurrency, iterations, queries, iteration, pool_queue, bench_pc,
                   relogin, profile_requests, bench_exit>>
    /\ UNCHANGED <<pollVars, pipeVars, valVars, cmdVars, retryVars, execVars,
                   cfgVars, ddlVars, upVars, repVars, ingVars>>

\* the response of POST /sql arrives: the job id, or an exception that
\* run_query turns into a FAILED row
WorkerSubmit(w) ==
    /\ worker[w].pc = "submit"
    /\ \/ /\ worker' = [worker EXCEPT ![w].pc = "poll"]
          /\ UNCHANGED <<results, faults>>
       \/ \E cls \in ExceptionClasses :
            /\ faults < MaxFaults
            /\ faults' = faults + 1
            /\ results' = AppendMetrics(results, TRUE,
                             Metrics(worker[w].query, "FAILED", ExcMessage(cls), FALSE))
            /\ worker' = [worker EXCEPT ![w] = IdleWorker]
    /\ UNCHANGED <<token, headers, concurrency, iterations, queries, iteration,
                   pool_queue, bench_pc, token_writes, racing_write,
                   login_failures, relogin, profile_requests, bench_exit>>
    /\ UNCHANGED <<pollVars, pipeVars, valVars, cmdVars, retryVars, execVars,
                   cfgVars, ddlVars, upVars, repVars, ingVars>>

\* a status response arrives in _poll_job_status (late: the deadline has
\* elapsed by then); the loop sleeps and polls again, or returns the status to
\* run_query, which asks for the profile of a COMPLETED job and returns the
\* row of any other
WorkerPoll(w) ==
    /\ worker[w].pc = "poll"
    /\ \E resp \in StatusResponses, late \in BOOLEAN :
         LET out == PollStep(resp, IF late THEN BenchPollTimeout + 1 ELSE 0,
                             0, BenchPollTimeout)
         IN  IF out.raised
             THEN /\ faults < MaxFaults
                  /\ faults' = faults + 1
                  /\ results' = AppendMetrics(results, TRUE,
                                   Metrics(worker[w].query, "FAILED", str(resp), FALSE))
                  /\ worker' = [worker EXCEPT ![w] = IdleWorker]
                  /\ UNCHANGED profile_requests
             ELSE IF ~out.ret
             THEN UNCHANGED <<worker, results, faults, profile_requests>>
             ELSE /\ out.status.jobState = "COMPLETED" \/ faults < MaxFaults
                  /\ faults' = IF out.status.jobState = "COMPLETED"
                                THEN faults ELSE faults + 1
                  /\ CASE AfterPoll(out.status.jobState) = "profile" ->
                            /\ worker' = [worker EXCEPT ![w].pc = "profile",
                                                        ![w].state = out.status.jobState]
                            /\ profile_requests' = profile_requests + 1
                            /\ UNCHANGED results
                       [] AfterPoll(out.status.jobState) = "submit" ->
                            /\ worker' = [worker EXCEPT ![w] = SendSubmit(worker[w])]
                            /\ UNCHANGED <<results, profile_requests>>
                       [] OTHER ->
                            /\ results' = AppendMetrics(results, TRUE,
                                   Metrics(worker[w].query, out.status.jobState, "", FALSE))
                            /\ worker' = [worker EXCEPT ![w] = IdleWorker]
                            /\ UNCHANGED profile_requests
    /\ UNCHANGED <<token, headers, concurrency, iterations, queries, iteration,
                   pool_queue, bench_pc, token_writes, racing_write,
                   login_failures, relogin, bench_exit>>
    /\ UNCHANGED <<pollVars, pipeVars, valVars, cmdVars, retryVars, execVars,
                   cfgVars, ddlVars, upVars, repVars, ingVars>>

\* the response of GET /job/{id}/profile arrives (or fails: _get_job_profile
\* returns None) and run_query returns the COMPLETED row
WorkerProfile(w) ==
    /\ worker[w].pc = "profile"
    /\ \E profile \in BOOLEAN :
         /\ profile \/ faults < MaxFaults
         /\ faults' = IF profile THEN faults ELSE faults + 1
         /\ results' = AppendMetrics(results, TRUE,
                          Metrics(worker[w].query, worker[w].state, "", profile))
    /\ worker' = [worker EXCEPT ![w] = IdleWorker]
    /\ UNCHANGED <<token, headers, concurrency, iterations, queries, iteration,
                   pool_queue, bench_pc, token_writes, racing_write,
                   login_failures, relogin, profile_requests, bench_exit>>
    /\ UNCHANGED <<pollVars, pipeVars, valVars, cmdVars, retryVars, execVars,
                   cfgVars, ddlVars, upVars, repVars, ingVars>>

BenchNext ==
    \/ BenchIterate
    \/ \E w \in WorkerIds : WorkerTake(w)
    \/ \E w \in WorkerIds : WorkerLogin(w)
    \/ \E w \in WorkerIds : WorkerSubmit(w)
    \/ \E w \in WorkerIds : WorkerPoll(w)
    \/ \E w \in WorkerIds : WorkerProfile(w)

\* no benchmark is running
BenchIdle ==
    /\ token = "None"
    /\ headers = <<>>
    /\ concurrency = 1
    /\ iterations = 1
    /\ queries = <<>>
    /\ iteration = 0
    /\ pool_queue = <<>>
    /\ worker = [w \in WorkerIds |-> IdleWorker]
    /\ results = <<>>
    /\ bench_pc = "idle"
    /\ token_writes = 0
    /\ racing_write = FALSE
    /\ faults = 0
    /\ login_failures = 0
    /\ relogin = FALSE
    /\ profile_requests = 0
    /\ bench_exit = -1

(***************************************************************************)
(* The Command Runner (utils/command.py).                                  *)
(***************************************************************************)
\* exit statuses of a child process
ExitCodes == 0..MaxExitCode

\* what a child process writes to a pipe: nothing, the bytes of "ok", or the
\* byte 0xFF, which no UTF-8 text contains
ByteStrings == {<<>>, <<111, 107>>, <<255>>}

\* bytes.decode('utf-8'): the text (its code points), or UnicodeDecodeError
decode(b) ==
    IF \E i \in 1..Len(b) : b[i] >= 128
    THEN [ok |-> FALSE, text |-> <<>>]
    ELSE [ok |-> TRUE, text |-> b]

\* an Optional[str]: None, or a text
None == [some |-> FALSE, text |-> <<>>]
Some(text) == [some |-> TRUE, text |-> text]

\* str(e) of the exceptions met here, as code points: "E"
ErrorText == <<69>>

\* subprocess.run(cmd, check=True, ...): the process runs and exits, or it
\* cannot be started (OSError: no such file, permission denied)
ProcessOutcomes ==
    [kind : {"exit"}, code : ExitCodes, stdout : ByteStrings, stderr : ByteStrings]
    \cup {[kind |-> "oserror", code |-> 0, stdout |-> <<>>, stderr |-> <<>>]}

\* operation(*args, **kwargs): it returns None or a value whose str() is "ok",
\* or it raises an Exception
OperationOutcomes ==
    {[kind |-> "return", code |-> 0, stdout |-> r, stderr |-> <<>>] :
        r \in {<<>>, <<111, 107>>}}
    \cup {[kind |-> "exception", code |-> 0, stdout |-> <<>>, stderr |-> <<>>]}

Returned(success, stdout, stderr) ==
    [raised |-> FALSE, success |-> success, stdout |-> stdout, stderr |-> stderr]

\* the exception leaves the function
Raised == [raised |-> TRUE, success |-> FALSE, stdout |-> None, stderr |-> None]

\* `success` of run_shell_command for a process that ran: check=True makes
\* subprocess.run raise CalledProcessError on a non-zero status
ZeroExit(code) == code = 0

\* CommandExecutor.run_shell_command.  The texts are decoded inside the `try`
\* on the success path (a UnicodeDecodeError is then caught by `except
\* Exception`), and inside the `except CalledProcessError` handler on the
\* failure path, where nothing catches it.
run_shell_command(outcome, capture) ==
    IF outcome.kind = "oserror"
    THEN Returned(FALSE, None, Some(ErrorText))
    ELSE IF ZeroExit(outcome.code)
    THEN IF ~capture
         THEN Returned(TRUE, None, None)
         ELSE IF decode(outcome.stdout).ok /\ decode(outcome.stderr).ok
         THEN Returned(TRUE, Some(decode(outcome.stdout).text),
                       Some(decode(outcome.stderr).text))
         ELSE Returned(FALSE, None, Some(ErrorText))
    ELSE IF ~capture
         THEN Returned(FALSE, None, None)
         ELSE IF decode(outcome.stdout).ok /\ decode(outcome.stderr).ok
         THEN Returned(FALSE, Some(decode(outcome.stdout).text),
                       Some(decode(outcome.stderr).text))
         ELSE Raised

\* CommandExecutor.run_python_operation
run_python_operation(outcome) ==
    IF outcome.kind = "return"
    THEN Returned(TRUE, Some(outcome.stdout), Some(<<>>))
    ELSE Returned(FALSE, None, Some(ErrorText))

NoResult == Returned(FALSE, None, None)

CmdInit ==
    /\ \/ cmd_kind = "shell" /\ cmd_outcome \in ProcessOutcomes
                             /\ capture_output \in BOOLEAN
       \/ cmd_kind = "python" /\ cmd_outcome \in OperationOutcomes
                              /\ capture_output = TRUE
    /\ cmd_result = NoResult
    /\ cmd_pc = "call"

\* one call of run_shell_command or run_python_operation
RunCommand ==
    /\ cmd_pc = "call"
    /\ cmd_result' = IF cmd_kind = "shell"
                     THEN run_shell_command(cmd_outcome, capture_output)
                     ELSE run_python_operation(cmd_outcome)
    /\ cmd_pc' = IF cmd_result'.raised THEN "raised" ELSE "returned"
    /\ UNCHANGED <<cmd_kind, capture_output, cmd_outcome>>
    /\ UNCHANGED <<pollVars, pipeVars, valVars, benchVars, retryVars,
                   execVars, cfgVars, ddlVars, upVars, repVars, ingVars>>

CmdNext == RunCommand

\* no command is being run
CmdIdle ==
    /\ cmd_kind = "shell"
    /\ capture_output = TRUE
    /\ cmd_outcome = [kind |-> "exit", code |-> 0, stdout |-> <<>>, stderr |-> <<>>]
    /\ cmd_result = NoResult
    /\ cmd_pc = "idle"

(***************************************************************************)
(* The request-layer retry (DremioIngester._make_request).                 *)
(***************************************************************************)
\* what session.request / raise_for_status does on one attempt: a response,
\* or one of the requests.exceptions the three `except` clauses tell apart
\* (HTTPError standing for every other RequestException)
RequestOutcomes == {"ok", "requests.Timeout", "requests.ConnectionError",
                    "requests.HTTPError"}

\* the exception raised after the last attempt failed with `exc`: the
\* built-in TimeoutError / ConnectionError, or the bare `raise`
FinalError(exc) ==
    CASE exc = "requests.Timeout" -> "builtins.TimeoutError"
      [] exc = "requests.ConnectionError" -> "builtins.ConnectionError"
      [] OTHER -> exc

\* `self.retry_delay * (attempt + 1)`, attempt counting from 0
BackoffDelayMutConstant(delay, attempt) == delay
BackoffDelay(delay, attempt) == delay * (attempt + 1)

\* `if attempt < self.max_retries - 1`
HasAttemptsLeft(attempt, limit) == attempt < limit - 1

\* Config.validate of the ingester refuses MAX_RETRIES < 1 and RETRY_DELAY < 1
RetryInit ==
    /\ max_retries \in 1..MaxRetries
    /\ retry_delay \in 1..MaxDelay
    /\ attempts = <<>>
    /\ sleeps = <<>>
    /\ retry_pc = "request"
    /\ retry_error = "-"

\* one pass of `for attempt in range(self.max_retries)`
MakeRequestAttempt ==
    /\ retry_pc = "request"
    /\ \E outcome \in RequestOutcomes :
         LET attempt == Len(attempts)
         IN  /\ attempts' = Append(attempts, outcome)
             /\ IF outcome = "ok"
                THEN /\ retry_pc' = "returned"
                     /\ UNCHANGED <<sleeps, retry_error>>
                ELSE IF HasAttemptsLeft(attempt, max_retries)
                THEN /\ sleeps' = Append(sleeps, BackoffDelay(retry_delay, attempt))
                     /\ retry_pc' = "request"
                     /\ UNCHANGED retry_error
                ELSE /\ retry_pc' = "raised"
                     /\ retry_error' = FinalError(outcome)
                     /\ UNCHANGED sleeps
    /\ UNCHANGED <<max_retries, retry_delay>>
    /\ UNCHANGED <<pollVars, pipeVars, valVars, benchVars, cmdVars, execVars,
                   cfgVars, ddlVars, upVars, repVars, ingVars>>

RetryNext == MakeRequestAttempt

\* no request is being made
RetryIdle ==
    /\ max_retries = 1
    /\ retry_delay = 1
    /\ attempts = <<>>
    /\ sleeps = <<>>
    /\ retry_pc = "idle"
    /\ retry_error = "-"

(***************************************************************************)
(* DremioClient.execute_query (dremio_benchmark.py, prepare_tpcds_data.py):*)
(* submit, then `while True` over the job status.                          *)
(***************************************************************************)
\* the callers of the two execute_query methods
ExecCallers == {"dremio_benchmark.benchmark_read", "dremio_benchmark.benchmark_write",
                "prepare_tpcds_data.create_schema", "prepare_tpcds_data.create_tables"}

\* the latest MaxSeen responses
Remember(seen, resp) ==
    IF Len(seen) < MaxSeen THEN Append(seen, resp)
    ELSE Append(Tail(seen), resp)

\* what the body of `while True` does with a status response: "return" the
\* status (COMPLETED), "raise" (raise_for_status or the request raised, the
\* KeyError of a body without jobState, `raise Exception` for FAILED and
\* CANCELED), or "sleep" and ask again; no branch looks at the time
ExecStep(resp) ==
    IF resp.kind = "exc" THEN "raise"
    ELSE IF resp.jobState = "COMPLETED" THEN "return"
    ELSE IF resp.jobState \in {"FAILED", "CANCELED", "NONE"} THEN "raise"
    ELSE "sleep"

ExecInit ==
    /\ exec_client \in ExecCallers
    /\ exec_pc = "submit"
    /\ exec_seen = <<>>

\* requests.post(query_url, ..., timeout=30) and raise_for_status: the job id,
\* or an exception that is printed and raised again
ExecSubmit ==
    /\ exec_pc = "submit"
    /\ \E accepted \in BOOLEAN :
         exec_pc' = IF accepted THEN "request" ELSE "raised"
    /\ UNCHANGED <<exec_client, exec_seen>>
    /\ UNCHANGED <<pollVars, pipeVars, valVars, benchVars, cmdVars,
                   retryVars, cfgVars, ddlVars, upVars, repVars, ingVars>>

\* requests.get(status_url, ..., timeout=10) and the tests on its answer
ExecRequest ==
    /\ exec_pc = "request"
    /\ \E resp \in StatusResponses :
         /\ exec_seen' = Remember(exec_seen, resp)
         /\ exec_pc' = CASE ExecStep(resp) = "return" -> "returned"
                         [] ExecStep(resp) = "raise" -> "raised"
                         [] OTHER -> "sleep"
    /\ UNCHANGED exec_client
    /\ UNCHANGED <<pollVars, pipeVars, valVars, benchVars, cmdVars,
                   retryVars, cfgVars, ddlVars, upVars, repVars, ingVars>>

\* time.sleep(1)
ExecSleep ==
    /\ exec_pc = "sleep"
    /\ exec_pc' = "request"
    /\ UNCHANGED <<exec_client, exec_seen>>
    /\ UNCHANGED <<pollVars, pipeVars, valVars, benchVars, cmdVars,
                   retryVars, cfgVars, ddlVars, upVars, repVars, ingVars>>

ExecNext == ExecSubmit \/ ExecRequest \/ ExecSleep

\* no execute_query is running
ExecIdle ==
    /\ exec_client = "dremio_benchmark.benchmark_read"
    /\ exec_pc = "idle"
    /\ exec_seen = <<>>

(***************************************************************************)
(* Config.load_from_file and the environment overrides (utils/config.py).  *)
(* Of the overridable settings the model keeps a text and an integer       *)
(* setting of the section `clusters` (cluster dremio_a) and of the section *)
(* `pipeline`; the other sections are mappings or absent.                  *)
(***************************************************************************)
Leaves == {"clusters.dremio_a.host", "clusters.dremio_a.port",
           "pipeline.query_dir", "pipeline.timeout_seconds"}

\* the settings that are assigned `int(os.environ[...])`
IntLeaves == {"clusters.dremio_a.port", "pipeline.timeout_seconds"}

\* the environment variable that overrides each setting
EnvVar(leaf) ==
    CASE leaf = "clusters.dremio_a.host" -> "DREMIO_DREMIO_A_HOST"
      [] leaf = "clusters.dremio_a.port" -> "DREMIO_DREMIO_A_PORT"
      [] leaf = "pipeline.query_dir" -> "DREMIO_QUERY_DIR"
      [] OTHER -> "DREMIO_QUERY_TIMEOUT_SECONDS"

EnvVars == {EnvVar(leaf) : leaf \in Leaves}

\* the values an environment variable may hold; "UNSET": not in os.environ
EnvValues(var) ==
    CASE var = "DREMIO_DREMIO_A_HOST" -> {"UNSET", "env-host"}
      [] var = "DREMIO_DREMIO_A_PORT" -> {"UNSET", "9048", "abc"}
      [] var = "DREMIO_QUERY_DIR" -> {"UNSET", "env-queries"}
      [] OTHER -> {"UNSET", "120", "soon"}

Environments == {e \in [EnvVars -> {"UNSET", "env-host", "9048", "abc",
                                    "env-queries", "120", "soon"}] :
                    \A v \in EnvVars : e[v] \in EnvValues(v)}

\* int(text): the integer (written "int:<n>" to tell it from the text), or
\* ValueError
int(text) ==
    CASE text = "9048" -> [ok |-> TRUE, value |-> "int:9048"]
      [] text = "120" -> [ok |-> TRUE, value |-> "int:120"]
      [] OTHER -> [ok |-> FALSE, value |-> "ABSENT"]

\* a section of the document: the key is absent, holds null (a YAML key
\* without a value), or holds a mapping with the two settings ("ABSENT": the
\* mapping has no such key)
ClusterSections ==
    {[kind |-> "absent", host |-> "ABSENT", port |-> "ABSENT"],
     [kind |-> "null", host |-> "ABSENT", port |-> "ABSENT"]}
    \cup [kind : {"mapping"}, host : {"ABSENT", "file-host"},
          port : {"ABSENT", "int:9047"}]

PipelineSections ==
    {[kind |-> "absent", query_dir |-> "ABSENT", timeout_seconds |-> "ABSENT"],
     [kind |-> "null", query_dir |-> "ABSENT", timeout_seconds |-> "ABSENT"]}
    \cup [kind : {"mapping"}, query_dir : {"ABSENT", "file-queries"},
          timeout_seconds : {"ABSENT", "int:600"}]

Documents == [clusters : ClusterSections, pipeline : PipelineSections]

\* `self.config_data = {}`
EmptyData ==
    [clusters |-> [kind |-> "absent", host |-> "ABSENT", port |-> "ABSENT"],
     pipeline |-> [kind |-> "absent", query_dir |-> "ABSENT",
                   timeout_seconds |-> "ABSENT"]]

\* the file: absent, not parseable as YAML, or holding a document
ConfigFiles ==
    {[exists |-> FALSE, parses |-> FALSE, doc |-> EmptyData],
     [exists |-> TRUE, parses |-> FALSE, doc |-> EmptyData]}
    \cup [exists : {TRUE}, parses : {TRUE}, doc : Documents]

\* `<section>[<key>] = <value from the environment>`: the value stored
OverrideValueMutFileWins(current, value) == IF current # "ABSENT" THEN current ELSE value
OverrideValueMutToggle(current, value) == IF current = value THEN "ABSENT" ELSE value
OverrideValue(current, value) == value

\* `if "<section>" not in self.config_data: self.config_data["<section>"] = {}`
EnsureSection(sec) == IF sec.kind = "absent" THEN [sec EXCEPT !.kind = "mapping"] ELSE sec

\* Config._override_cluster_config, for the cluster dremio_a: `cluster not in
\* self.config_data["clusters"]` raises TypeError on a null section; the
\* cluster's mapping is created when absent; an invalid port is only logged
_override_cluster_config(data, env) ==
    IF data.clusters.kind = "null"
    THEN [data |-> data, raised |-> TRUE]
    ELSE LET s0 == EnsureSection(data.clusters)
             s1 == IF env["DREMIO_DREMIO_A_HOST"] # "UNSET"
                   THEN [s0 EXCEPT !.host = OverrideValue(@, env["DREMIO_DREMIO_A_HOST"])]
                   ELSE s0
             port == int(env["DREMIO_DREMIO_A_PORT"])
             s2 == IF env["DREMIO_DREMIO_A_PORT"] # "UNSET" /\ port.ok
                   THEN [s1 EXCEPT !.port = OverrideValue(@, port.value)]
                   ELSE s1
         IN  [data |-> [data EXCEPT !.clusters = s2], raised |-> FALSE]

\* Config._override_pipeline_config: on a null section pipeline_config is
\* None and the first assignment raises TypeError (int() is evaluated before
\* the assignment, and its ValueError is caught)
_override_pipeline_config(data, env) ==
    LET s0 == EnsureSection(data.pipeline)
        timeout_seconds == int(env["DREMIO_QUERY_TIMEOUT_SECONDS"])
        sets_dir == env["DREMIO_QUERY_DIR"] # "UNSET"
        sets_timeout == env["DREMIO_QUERY_TIMEOUT_SECONDS"] # "UNSET" /\ timeout_seconds.ok
        s1 == IF sets_dir
              THEN [s0 EXCEPT !.query_dir = OverrideValue(@, env["DREMIO_QUERY_DIR"])]
              ELSE s0
        s2 == IF sets_timeout
              THEN [s1 EXCEPT !.timeout_seconds = OverrideValue(@, timeout_seconds.value)]
              ELSE s1
    IN  IF s0.kind = "null"
        THEN [data |-> data, raised |-> sets_dir \/ sets_timeout]
        ELSE [data |-> [data EXCEPT !.pipeline = s2], raised |-> FALSE]

\* Config._apply_environment_overrides: the sections in turn; an exception
\* leaves the later sections as they were
_apply_environment_overrides(data, env) ==
    LET c == _override_cluster_config(data, env)
    IN  IF c.raised THEN c ELSE _override_pipeline_config(c.data, env)

CfgInit ==
    /\ cfg_file \in ConfigFiles
    /\ environ \in Environments
    /\ loaded_data = EmptyData
    /\ load_pc = "load"
    /\ applications = 0
    /\ resolved_once = EmptyData

\* Config.load_from_file: False for a file that is absent or does not parse
\* (config_data stays {}); otherwise the document is stored, the overrides
\* are applied, and an exception of theirs makes the result False
LoadFromFile ==
    /\ load_pc = "load"
    /\ IF ~cfg_file.exists \/ ~cfg_file.parses
       THEN /\ load_pc' = "failed"
            /\ UNCHANGED <<loaded_data, applications, resolved_once>>
       ELSE LET r == _apply_environment_overrides(cfg_file.doc, environ)
            IN  /\ loaded_data' = r.data
                /\ resolved_once' = r.data
                /\ applications' = 1
                /\ load_pc' = IF r.raised THEN "failed" ELSE "loaded"
    /\ UNCHANGED <<cfg_file, environ>>
    /\ UNCHANGED <<pollVars, pipeVars, valVars, benchVars, cmdVars,
                   retryVars, execVars, ddlVars, upVars, repVars, ingVars>>

\* _apply_environment_overrides called again on the same Config, under the
\* same environment
ApplyAgain ==
    /\ load_pc \in {"loaded", "failed"}
    /\ applications \in 1..(MaxApplications - 1)
    /\ loaded_data' = _apply_environment_overrides(loaded_data, environ).data
    /\ applications' = applications + 1
    /\ UNCHANGED <<cfg_file, environ, load_pc, resolved_once>>
    /\ UNCHANGED <<pollVars, pipeVars, valVars, benchVars, cmdVars,
                   retryVars, execVars, ddlVars, upVars, repVars, ingVars>>

CfgNext == LoadFromFile \/ ApplyAgain

\* no configuration is being loaded
CfgIdle ==
    /\ cfg_file = [exists |-> FALSE, parses |-> FALSE, doc |-> EmptyData]
    /\ environ = [v \in EnvVars |-> "UNSET"]
    /\ loaded_data = EmptyData
    /\ load_pc = "idle"
    /\ applications = 0
    /\ resolved_once = EmptyData

(***************************************************************************)
(* The ddl step: run_ddl_generation_step (main.py) and the create_tables.py *)
(* process it starts for each cluster.                                     *)
(***************************************************************************)
\* the schemas generate_ddl_statements makes, one per (scale, format) pair
SchemaNames == <<"dfs.hdfs.tpcds_1gb_parquet", "dfs.hdfs.tpcds_1gb_orc",
                 "dfs.hdfs.tpcds_10gb_parquet", "dfs.hdfs.tpcds_10gb_orc">>

DdlClusters == {"a", "b"}

\* how DremioDDL.execute_sql ends for one statement: the login fails, the
\* submit request raises, or _poll_job_status returns one of its states
StatementEnds == {"login_failed", "submit_error", "COMPLETED", "FAILED",
                  "CANCELED", "TIMEOUT", "ERROR"}

\* a client that holds a token does not log in
PossibleEnds(tok) == IF NoToken(tok) THEN StatementEnds
                     ELSE StatementEnds \ {"login_failed"}

\* DremioDDL.execute_sql: job_status for COMPLETED (ok), None otherwise; the
\* token is set by a successful login
execute_sql(tok, end) ==
    [ok |-> end = "COMPLETED",
     token |-> IF end = "login_failed" THEN tok
               ELSE IF NoToken(tok) THEN "tokenA" ELSE tok]

\* exit status of create_tables.py after its loop over the statements:
\* `if not result: logger.error(...)` and main returns
ExitAfterStatements(all_ok) == 0

\* success flag run_command gives for a process that ended with `code`
CommandSuccess(code) ==
    run_shell_command([kind |-> "exit", code |-> code, stdout |-> <<>>,
                       stderr |-> <<>>], TRUE).success

\* `return success_a and success_b`
BothSucceeded(exits) == CommandSuccess(exits["a"]) /\ CommandSuccess(exits["b"])

DdlInit ==
    /\ execute_ddl \in BOOLEAN
    /\ ddl_statements \in {SubSeq(SchemaNames, 1, n) : n \in 1..MaxSchemas}
    /\ ddl_cluster = "a"
    /\ ddl_token = "None"
    /\ ddl_next = 0
    /\ ddl_log = <<>>
    /\ ddl_exit = [c \in DdlClusters |-> -1]
    /\ ddl_success = FALSE
    /\ ddl_pc = "spawn"

\* the process of ddl_cluster has ended with `code`: run_command returns, and
\* the handler goes on to cluster B or returns
ProcessEnded(code) ==
    LET exits == [ddl_exit EXCEPT ![ddl_cluster] = code]
    IN  /\ ddl_exit' = exits
        /\ IF ddl_cluster = "a"
           THEN /\ ddl_cluster' = "b"
                /\ ddl_pc' = "spawn"
                /\ UNCHANGED ddl_success
           ELSE /\ ddl_pc' = "returned"
                /\ ddl_success' = BothSucceeded(exits)
                /\ UNCHANGED ddl_cluster

\* run_command starts create_tables.py for the cluster: main generates the
\* statements and writes the files (an OSError there is caught nowhere and
\* ends the process with 1); without --execute it then returns
DdlSpawn ==
    /\ ddl_pc = "spawn"
    /\ \E written \in BOOLEAN :
         IF ~written
         THEN ProcessEnded(1)
         ELSE IF ~execute_ddl
         THEN ProcessEnded(0)
         ELSE /\ ddl_pc' = "execute"
              /\ UNCHANGED <<ddl_cluster, ddl_exit, ddl_success>>
    /\ ddl_token' = "None"
    /\ ddl_next' = 0
    /\ UNCHANGED <<execute_ddl, ddl_statements, ddl_log>>
    /\ UNCHANGED <<pollVars, pipeVars, valVars, benchVars, cmdVars,
                   retryVars, execVars, cfgVars, upVars, repVars, ingVars>>

\* one pass of `for schema_name, sql in ddl_statements.items()`; after the
\* last one main returns
DdlExecute ==
    /\ ddl_pc = "execute"
    /\ ddl_next < Len(ddl_statements)
    /\ \E end \in PossibleEnds(ddl_token) :
         LET r == execute_sql(ddl_token, end)
             log == Append(ddl_log, [cluster |-> ddl_cluster,
                                     schema |-> ddl_statements[ddl_next + 1],
                                     end |-> end, ok |-> r.ok])
         IN  /\ ddl_log' = log
             /\ ddl_token' = r.token
             /\ ddl_next' = ddl_next + 1
             /\ IF ddl_next + 1 = Len(ddl_statements)
                THEN ProcessEnded(ExitAfterStatements(
                         \A i \in 1..Len(log) :
                             log[i].cluster = ddl_cluster => log[i].ok))
                ELSE UNCHANGED <<ddl_cluster, ddl_exit, ddl_success, ddl_pc>>
    /\ UNCHANGED <<execute_ddl, ddl_statements>>
    /\ UNCHANGED <<pollVars, pipeVars, valVars, benchVars, cmdVars,
                   retryVars, execVars, cfgVars, upVars, repVars, ingVars>>

DdlNext == DdlSpawn \/ DdlExecute

\* the ddl step is not running
DdlIdle ==
    /\ execute_ddl = FALSE
    /\ ddl_statements = <<>>
    /\ ddl_cluster = "a"
    /\ ddl_token = "None"
    /\ ddl_next = 0
    /\ ddl_log = <<>>
    /\ ddl_exit = [c \in DdlClusters |-> -1]
    /\ ddl_success = FALSE
    /\ ddl_pc = "idle"

(***************************************************************************)
(* The upload step: upload_to_hdfs.py.                                     *)
(***************************************************************************)
\* the (scale, format) pairs, in the order of the loops of main
UploadUnits == <<"1gb/csv", "1gb/parquet">>

\* the first tables of TPC_DS_TABLES
TPC_DS_TABLES == <<"call_center", "catalog_page">>

EnvNames == {"HADOOP_USER_NAME", "HADOOP_CONF_DIR"}

\* what the environment holds before the process touches it; "UNSET": the
\* variable is not in os.environ
EnvBefore == [EnvNames -> {"UNSET", "", "preset"}]

\* the upload function calls main makes, in order: per unit the simple-auth
\* one unless skipped, then the kerberized one unless skipped
RECURSIVE UploadCalls(_, _, _)
UploadCalls(units, skip_s, skip_k) ==
    IF units = <<>> THEN <<>>
    ELSE (IF skip_s THEN <<>> ELSE <<[unit |-> Head(units), cluster |-> "simple_auth"]>>)
         \o (IF skip_k THEN <<>> ELSE <<[unit |-> Head(units), cluster |-> "kerberized"]>>)
         \o UploadCalls(Tail(units), skip_s, skip_k)

\* `old = os.environ.get(name); os.environ[name] = value`
SetEnv(env, name, value) == [env EXCEPT ![name] = value]

\* `if old is not None`
IsNotNoneMutTruthy(old) == old # "UNSET" /\ old # ""
IsNotNone(old) == old # "UNSET"

\* the `finally` clause, for one variable: the old value is put back, or
\* the variable is popped when there was none
RestoreEnv(env, name, old) ==
    IF IsNotNone(old) THEN [env EXCEPT ![name] = old]
    ELSE [env EXCEPT ![name] = "UNSET"]

\* the environment inside upload_to_simple_auth_hdfs / upload_to_kerberized_hdfs
EnvInside(env, cluster) ==
    IF cluster = "simple_auth"
    THEN SetEnv(SetEnv(env, "HADOOP_USER_NAME", "hdfs"), "HADOOP_CONF_DIR", "conf-simple")
    ELSE SetEnv(env, "HADOOP_CONF_DIR", "conf-kerberized")

\* the environment after the `finally` clause of the function
EnvAfter(env, cluster, old) ==
    IF cluster = "simple_auth"
    THEN RestoreEnv(RestoreEnv(env, "HADOOP_USER_NAME", old["HADOOP_USER_NAME"]),
                    "HADOOP_CONF_DIR", old["HADOOP_CONF_DIR"])
    ELSE RestoreEnv(env, "HADOOP_CONF_DIR", old["HADOOP_CONF_DIR"])

\* what stops an upload function before its table loop: the client cannot be
\* made (exception), no Kerberos ticket can be obtained (kerberized only), or
\* the target directory cannot be created
EntryOutcomes(cluster) ==
    {"ok", "client_raises", "mkdir_fails"}
    \cup (IF cluster = "kerberized" THEN {"kinit_fails"} ELSE {})

\* one table of the loop: its local directory is missing (skipped), or
\* upload_directory returns True or False, or an exception reaches the
\* `except Exception` of the function
TableOutcomes == {"missing", "uploaded", "failed", "raised"}

\* `if not success: return False` (an exception gives False as well)
TableAbortsMutIgnored(outcome) == FALSE
TableAborts(outcome) == outcome \in {"failed", "raised"}

\* sys.exit(0 if success else 1)
UploadExit(success) == IF success THEN 0 ELSE 1

UploadInit ==
    /\ up_hadoop_bin \in BOOLEAN
    /\ up_units \in {SubSeq(UploadUnits, 1, n) : n \in 1..Len(UploadUnits)}
    /\ skip_simple_auth \in BOOLEAN
    /\ skip_kerberized \in BOOLEAN
    /\ os_environ \in EnvBefore
    /\ env_before = os_environ
    /\ up_call = 0
    /\ up_table = 0
    /\ uploads = <<>>
    /\ up_returns = 0
    /\ up_pc = "parse"
    /\ up_exit = -1

\* parser.parse_args(): an option the parser does not define ends the
\* process with status 2
UploadParseArgs ==
    /\ up_pc = "parse"
    /\ IF up_hadoop_bin
       THEN up_pc' = "exited" /\ up_exit' = 2
       ELSE up_pc' = "main" /\ up_exit' = up_exit
    /\ UNCHANGED <<up_hadoop_bin, up_units, skip_simple_auth, skip_kerberized,
                   os_environ, env_before, up_call, up_table, uploads, up_returns>>
    /\ UNCHANGED <<pollVars, pipeVars, valVars, benchVars, cmdVars,
                   retryVars, execVars, cfgVars, ddlVars, repVars, ingVars>>

\* the running upload function returns `success` with the environment `env`
\* and the saved values `old`: its `finally` restores the variables; main
\* returns False on a failure, and goes on otherwise
FunctionReturns(env, cluster, old, success) ==
    /\ os_environ' = EnvAfter(env, cluster, old)
    /\ up_returns' = up_returns + 1
    /\ IF success
       THEN up_pc' = "main" /\ up_exit' = up_exit
       ELSE up_pc' = "exited" /\ up_exit' = UploadExit(FALSE)

\* main calls the next upload function, which saves and sets the variables,
\* makes the client and the target directory
UploadEnter ==
    /\ up_pc = "main"
    /\ up_call < Len(UploadCalls(up_units, skip_simple_auth, skip_kerberized))
    /\ LET call == UploadCalls(up_units, skip_simple_auth, skip_kerberized)[up_call + 1]
       IN  /\ up_call' = up_call + 1
           /\ up_table' = 0
           /\ env_before' = os_environ
           /\ \E entry \in EntryOutcomes(call.cluster) :
                IF entry = "ok"
                THEN /\ os_environ' = EnvInside(os_environ, call.cluster)
                     /\ up_pc' = "tables"
                     /\ UNCHANGED <<up_returns, up_exit>>
                ELSE FunctionReturns(EnvInside(os_environ, call.cluster),
                                     call.cluster, os_environ, FALSE)
    /\ UNCHANGED <<up_hadoop_bin, up_units, skip_simple_auth, skip_kerberized, uploads>>
    /\ UNCHANGED <<pollVars, pipeVars, valVars, benchVars, cmdVars,
                   retryVars, execVars, cfgVars, ddlVars, repVars, ingVars>>

\* one pass of `for table in TPC_DS_TABLES`; after the last table the
\* function returns True
UploadTable ==
    /\ up_pc = "tables"
    /\ up_table < Len(TPC_DS_TABLES)
    /\ LET call == UploadCalls(up_units, skip_simple_auth, skip_kerberized)[up_call]
           table == TPC_DS_TABLES[up_table + 1]
       IN  \E outcome \in TableOutcomes :
             /\ uploads' = IF outcome = "missing" THEN uploads
                           ELSE Append(uploads, [unit |-> call.unit,
                                                 cluster |-> call.cluster,
                                                 table |-> table,
                                                 ok |-> outcome = "uploaded"])
             /\ up_table' = up_table + 1
             /\ env_before' = env_before
             /\ IF TableAborts(outcome)
                THEN FunctionReturns(os_environ, call.cluster, env_before, FALSE)
                ELSE IF up_table + 1 = Len(TPC_DS_TABLES)
                THEN FunctionReturns(os_environ, call.cluster, env_before, TRUE)
                ELSE UNCHANGED <<os_environ, up_returns, up_pc, up_exit>>
    /\ UNCHANGED <<up_hadoop_bin, up_units, skip_simple_auth, skip_kerberized, up_call>>
    /\ UNCHANGED <<pollVars, pipeVars, valVars, benchVars, cmdVars,
                   retryVars, execVars, cfgVars, ddlVars, repVars, ingVars>>

\* the loops of main are over: main returns True
UploadFinish ==
    /\ up_pc = "main"
    /\ up_call = Len(UploadCalls(up_units, skip_simple_auth, skip_kerberized))
    /\ up_pc' = "exited"
    /\ up_exit' = UploadExit(TRUE)
    /\ UNCHANGED <<up_hadoop_bin, up_units, skip_simple_auth, skip_kerberized,
                   os_environ, env_before, up_call, up_table, uploads, up_returns>>
    /\ UNCHANGED <<pollVars, pipeVars, valVars, benchVars, cmdVars,
                   retryVars, execVars, cfgVars, ddlVars, repVars, ingVars>>

UploadNext == UploadParseArgs \/ UploadEnter \/ UploadTable \/ UploadFinish

\* upload_to_hdfs.py is not running
UploadIdle ==
    /\ up_hadoop_bin = FALSE
    /\ up_units = <<>>
    /\ skip_simple_auth = FALSE
    /\ skip_kerberized = FALSE
    /\ os_environ = [n \in EnvNames |-> "UNSET"]
    /\ env_before = [n \in EnvNames |-> "UNSET"]
    /\ up_call = 0
    /\ up_table = 0
    /\ uploads = <<>>
    /\ up_returns = 0
    /\ up_pc = "idle"
    /\ up_exit = -1

(***************************************************************************)
(* The report: generate_summary_statistics and generate_comparison_report  *)
(* (reports/generate_report.py), with the pandas operations they use.      *)
(***************************************************************************)
\* float64 values: a rational n/d (d > 0), NaN, or an infinity of sign n
NaN == [kind |-> "nan", n |-> 0, d |-> 1]
Num(n, d) == [kind |-> "num", n |-> n, d |-> d]
Inf(sign) == [kind |-> "inf", n |-> sign, d |-> 1]
Sign(n) == IF n > 0 THEN 1 ELSE IF n < 0 THEN -1 ELSE 0
Abs(n) == IF n < 0 THEN -n ELSE n

\* x - y
FSub(x, y) ==
    IF x.kind = "nan" \/ y.kind = "nan" THEN NaN
    ELSE IF x.kind = "inf" THEN (IF y.kind = "inf" /\ y.n = x.n THEN NaN ELSE x)
    ELSE IF y.kind = "inf" THEN Inf(-y.n)
    ELSE Num(x.n * y.d - y.n * x.d, x.d * y.d)

\* x / y of two Series: a division by zero raises nothing, 0/0 is NaN and
\* x/0 an infinity
FDiv(x, y) ==
    IF x.kind = "nan" \/ y.kind = "nan" THEN NaN
    ELSE IF y.kind = "inf" THEN (IF x.kind = "inf" THEN NaN ELSE Num(0, 1))
    ELSE IF y.n = 0 THEN (IF x.n = 0 THEN NaN ELSE Inf(Sign(x.n)))
    ELSE IF x.kind = "inf" THEN Inf(x.n * Sign(y.n))
    ELSE Num(x.n * y.d * Sign(y.n), x.d * Abs(y.n))

\* x * 100
FTimes100(x) == IF x.kind = "num" THEN Num(x.n * 100, x.d) ELSE x

IsZero(x) == x.kind = "num" /\ x.n = 0

\* index labels: a text ("q1", "q2": v = 1, 2) or an integer v.  read_csv
\* gives integer labels to a query_name column that holds only integers.
TextLabel(v) == [kind |-> "str", v |-> v]
IntLabel(v) == [kind |-> "int", v |-> v]
QueryLabels(kind) == IF kind = "str" THEN {TextLabel(1), TextLabel(2)}
                     ELSE {IntLabel(0), IntLabel(1)}

\* the frames read from a results file: up to MaxRows rows, whose query
\* names are all texts or all integers
Frames ==
    UNION {[1..n -> [query_name : QueryLabels(kind), execution_time : 0..MaxTime]] :
              n \in 1..MaxRows, kind \in {"str", "int"}}

\* the group keys of df.groupby('query_name')
GroupKeys(df) == {df[i].query_name : i \in 1..Len(df)}

RECURSIVE SumTimes(_, _)
SumTimes(df, key) ==
    IF df = <<>> THEN 0
    ELSE (IF Head(df).query_name = key THEN Head(df).execution_time ELSE 0)
         + SumTimes(Tail(df), key)

CountRows(df, key) == Cardinality({i \in 1..Len(df) : df[i].query_name = key})

\* generate_summary_statistics: the Series avg_execution_time, indexed by
\* query_name
generate_summary_statistics(df) ==
    [key \in GroupKeys(df) |-> Num(SumTimes(df, key), CountRows(df, key))]

\* the keys of a groupby result come sorted: the i-th of them, i from 0
SortedKey(keys, i) ==
    CHOOSE k \in keys : Cardinality({j \in keys : j.v < k.v}) = i

\* RangeIndex(n)
RangeIndex(n) == {IntLabel(i) : i \in 0..(n - 1)}

\* series.reindex(index): NaN for a label the series does not have
Reindex(series, index) ==
    [l \in index |-> IF l \in DOMAIN series THEN series[l] ELSE NaN]

\* `frame[column] = series`: the Series is aligned on the index of the frame
AssignColumn(series, index) == Reindex(series, index)

\* an arithmetic operation of two Series aligns them on the union of their
\* indexes; a label that one of them lacks gives NaN
Aligned(op(_, _), x, y) ==
    [l \in DOMAIN x \cup DOMAIN y |->
        IF l \in DOMAIN x /\ l \in DOMAIN y THEN op(x[l], y[l]) ELSE NaN]

\* generate_comparison_report, from the two summaries.  The empty frame
\* takes a RangeIndex when the query_name column is assigned from an Index;
\* every later column is a Series indexed by query_name and is aligned on
\* that RangeIndex.  set_index('query_name') then labels the rows.
generate_comparison_report(sa, sb) ==
    LET keys == DOMAIN sa
        index == RangeIndex(Cardinality(keys))
        query_name == [l \in index |-> SortedKey(keys, l.v)]
        a_avg_time == AssignColumn(sa, index)
        b_avg_time == AssignColumn(sb, index)
        time_diff == AssignColumn(Aligned(FSub, sb, sa), index)
        ratio == Aligned(FDiv, time_diff, sa)
        time_diff_pct == AssignColumn([l \in DOMAIN ratio |-> FTimes100(ratio[l])],
                                      index)
    IN  [key \in keys |->
            LET l == CHOOSE x \in index : query_name[x] = key
            IN  [a_avg_time |-> a_avg_time[l], b_avg_time |-> b_avg_time[l],
                 time_diff |-> time_diff[l], time_diff_pct |-> time_diff_pct[l]]]

NoSummary == [key \in {} |-> NaN]

\* the results of cluster B: the very rows of cluster A, or some one-row frame
ReportInit ==
    /\ df_a \in Frames
    /\ df_b \in {df_a} \cup {f \in Frames : Len(f) = 1}
    /\ summary_a = NoSummary
    /\ summary_b = NoSummary
    /\ comparison = NoSummary
    /\ rep_pc = "summarize"

\* `summary_a = generate_summary_statistics(df_a)` and the same for df_b
ReportSummarize ==
    /\ rep_pc = "summarize"
    /\ summary_a' = generate_summary_statistics(df_a)
    /\ summary_b' = generate_summary_statistics(df_b)
    /\ rep_pc' = "compare"
    /\ UNCHANGED <<df_a, df_b, comparison>>
    /\ UNCHANGED <<pollVars, pipeVars, valVars, benchVars, cmdVars,
                   retryVars, execVars, cfgVars, ddlVars, upVars, ingVars>>

\* the rest of generate_comparison_report
ReportCompare ==
    /\ rep_pc = "compare"
    /\ comparison' = generate_comparison_report(summary_a, summary_b)
    /\ rep_pc' = "returned"
    /\ UNCHANGED <<df_a, df_b, summary_a, summary_b>>
    /\ UNCHANGED <<pollVars, pipeVars, valVars, benchVars, cmdVars,
                   retryVars, execVars, cfgVars, ddlVars, upVars, ingVars>>

ReportNext == ReportSummarize \/ ReportCompare

\* no report is being generated
ReportIdle ==
    /\ df_a = <<>>
    /\ df_b = <<>>
    /\ summary_a = NoSummary
    /\ summary_b = NoSummary
    /\ comparison = NoSummary
    /\ rep_pc = "idle"

(***************************************************************************)
(* The ingestion driver: main of ingest_test_data.py.                      *)
(***************************************************************************)
\* what can stop main before the loop over the files: Config() raises
\* ValueError for a missing variable, DremioIngester(config) raises, the
\* test_data directory is missing, or f.stat() raises while the sizes are
\* summed
StartOutcomes == {"ok", "config_error", "ingester_error", "no_directory", "stat_error"}

\* validate_env: `if self.max_retries < 1: raise ValueError`
ValidRetries(n) == n >= 1

\* `attempt == max_retries - 1`
LastAttemptMutNever(attempt, n) == attempt = n
LastAttempt(attempt, n) == attempt = n - 1

\* `for attempt in range(max_retries)` has another turn
InRange(attempt, n) == attempt < n

\* ingest_file returns True or False: every statement of it is inside a try
\* whose last handler is `except Exception ... return False`
IngestResults == BOOLEAN

\* `if failed_ingestions: sys.exit(1)`; main returns otherwise
IngestExit(failed) == IF failed # <<>> THEN 1 ELSE 0

IngestInit ==
    /\ env_max_retries \in 0..MaxRetries
    /\ total_files \in 0..MaxFiles
    /\ ing_index = 0
    /\ ing_attempt = 0
    /\ ing_calls = [f \in 1..total_files |-> <<>>]
    /\ successful_ingestions = 0
    /\ failed_ingestions = <<>>
    /\ ing_error = "none"
    /\ ing_pc = "start"
    /\ ing_exit = -1

\* a sys.exit(1) that is not the one after the summary: the one of the
\* `except ValueError` around Config(), or the one of `except Exception`
CriticalExit(what) ==
    /\ ing_error' = what
    /\ ing_pc' = "exited"
    /\ ing_exit' = 1

\* main up to the loop over the files
IngestStart ==
    /\ ing_pc = "start"
    /\ \E outcome \in StartOutcomes :
        IF outcome = "config_error" \/ ~ValidRetries(env_max_retries)
        THEN CriticalExit("config_error")
        ELSE IF outcome # "ok" THEN CriticalExit(outcome)
        ELSE IF total_files = 0 THEN CriticalExit("no_files")
        ELSE /\ ing_pc' = "file"
             /\ UNCHANGED <<ing_error, ing_exit>>
    /\ UNCHANGED <<env_max_retries, total_files, ing_index, ing_attempt, ing_calls,
                   successful_ingestions, failed_ingestions>>
    /\ UNCHANGED <<pollVars, pipeVars, valVars, benchVars, cmdVars, retryVars,
                   execVars, cfgVars, ddlVars, upVars, repVars>>

\* the head of the outer loop: the next file and its file_path.stat(), or
\* the end of the loop
IngestNextFile ==
    /\ ing_pc = "file"
    /\ IF ing_index = total_files
       THEN /\ ing_pc' = "summary"
            /\ UNCHANGED <<ing_attempt, ing_error, ing_exit>>
       ELSE \E stat_raises \in BOOLEAN :
            IF stat_raises
            THEN CriticalExit("stat_error") /\ UNCHANGED ing_attempt
            ELSE /\ ing_attempt' = 0
                 /\ ing_pc' = "attempt"
                 /\ UNCHANGED <<ing_error, ing_exit>>
    /\ UNCHANGED <<env_max_retries, total_files, ing_index, ing_calls,
                   successful_ingestions, failed_ingestions>>
    /\ UNCHANGED <<pollVars, pipeVars, valVars, benchVars, cmdVars, retryVars,
                   execVars, cfgVars, ddlVars, upVars, repVars>>

\* one turn of the inner loop: ingest_file is called; True counts a success
\* and breaks; False on the last attempt raises, and the handler appends the
\* file to failed_ingestions; False on another attempt goes to the next turn
IngestAttempt ==
    /\ ing_pc = "attempt"
    /\ IF ~InRange(ing_attempt, env_max_retries)
       THEN /\ ing_pc' = "cleanup"
            /\ UNCHANGED <<ing_attempt, ing_calls, successful_ingestions, failed_ingestions>>
       ELSE \E result \in IngestResults :
            /\ ing_calls' = [ing_calls EXCEPT ![ing_index + 1] = Append(@, result)]
            /\ IF result
               THEN /\ successful_ingestions' = successful_ingestions + 1
                    /\ ing_pc' = "cleanup"
                    /\ UNCHANGED <<ing_attempt, failed_ingestions>>
               ELSE IF LastAttempt(ing_attempt, env_max_retries)
               THEN /\ failed_ingestions' = Append(failed_ingestions, ing_index + 1)
                    /\ ing_attempt' = ing_attempt + 1
                    /\ ing_pc' = "attempt"
                    /\ UNCHANGED successful_ingestions
               ELSE /\ ing_attempt' = ing_attempt + 1
                    /\ ing_pc' = "attempt"
                    /\ UNCHANGED <<successful_ingestions, failed_ingestions>>
    /\ UNCHANGED <<env_max_retries, total_files, ing_index, ing_error, ing_exit>>
    /\ UNCHANGED <<pollVars, pipeVars, valVars, benchVars, cmdVars, retryVars,
                   execVars, cfgVars, ddlVars, upVars, repVars>>

\* `ingester._cleanup_memory()` after the inner loop: it re-raises what it
\* catches
IngestCleanup ==
    /\ ing_pc = "cleanup"
    /\ \E cleanup_raises \in BOOLEAN :
        IF cleanup_raises
        THEN CriticalExit("cleanup_error") /\ UNCHANGED ing_index
        ELSE /\ ing_index' = ing_index + 1
             /\ ing_pc' = "file"
             /\ UNCHANGED <<ing_error, ing_exit>>
    /\ UNCHANGED <<env_max_retries, total_files, ing_attempt, ing_calls,
                   successful_ingestions, failed_ingestions>>
    /\ UNCHANGED <<pollVars, pipeVars, valVars, benchVars, cmdVars, retryVars,
                   execVars, cfgVars, ddlVars, upVars, repVars>>

\* the summary and the exit status
IngestSummary ==
    /\ ing_pc = "summary"
    /\ ing_exit' = IngestExit(failed_ingestions)
    /\ ing_pc' = "exited"
    /\ UNCHANGED <<env_max_retries, total_files, ing_index, ing_attempt, ing_calls,
                   successful_ingestions, failed_ingestions, ing_error>>
    /\ UNCHANGED <<pollVars, pipeVars, valVars, benchVars, cmdVars, retryVars,
                   execVars, cfgVars, ddlVars, upVars, repVars>>

IngestNext ==
    \/ IngestStart
    \/ IngestNextFile
    \/ IngestAttempt
    \/ IngestCleanup
    \/ IngestSummary

IngestIdle ==
    /\ env_max_retries = 1
    /\ total_files = 0
    /\ ing_index = 0
    /\ ing_attempt = 0
    /\ ing_calls = <<>>
    /\ successful_ingestions = 0
    /\ failed_ingestions = <<>>
    /\ ing_error = "none"
    /\ ing_pc = "idle"
    /\ ing_exit = -1

(***************************************************************************)
(* Specifications: one poll; one run of the orchestrator; one call of      *)
(* validate; one run of run_benchmarks.                                    *)
(***************************************************************************)
InitPoll == PollInit /\ PipeIdle /\ ValIdle /\ BenchIdle
            /\ CmdIdle /\ RetryIdle /\ ExecIdle /\ CfgIdle /\ DdlIdle /\ UploadIdle /\ ReportIdle /\ IngestIdle

SpecPoll == InitPoll /\ [][PollNext]_vars

InitPipe == PipeInit /\ PollIdle /\ ValIdle /\ BenchIdle
            /\ CmdIdle /\ RetryIdle /\ ExecIdle /\ CfgIdle /\ DdlIdle /\ UploadIdle /\ ReportIdle /\ IngestIdle

SpecPipe == InitPipe /\ [][PipeNext]_vars

InitValidate == ValInit /\ PollIdle /\ PipeIdle /\ BenchIdle
                /\ CmdIdle /\ RetryIdle /\ ExecIdle /\ CfgIdle /\ DdlIdle /\ UploadIdle /\ ReportIdle /\ IngestIdle

SpecValidate == InitValidate /\ [][ValNext]_vars

InitBench == BenchInit /\ PollIdle /\ PipeIdle /\ ValIdle
             /\ CmdIdle /\ RetryIdle /\ ExecIdle /\ CfgIdle /\ DdlIdle /\ UploadIdle /\ ReportIdle /\ IngestIdle

SpecBench == InitBench /\ [][BenchNext]_vars

InitCommand == CmdInit /\ PollIdle /\ PipeIdle /\ ValIdle /\ BenchIdle
               /\ RetryIdle /\ ExecIdle /\ CfgIdle /\ DdlIdle /\ UploadIdle /\ ReportIdle /\ IngestIdle

SpecCommand == InitCommand /\ [][CmdNext]_vars

InitRetry == RetryInit /\ PollIdle /\ PipeIdle /\ ValIdle /\ BenchIdle
             /\ CmdIdle /\ ExecIdle /\ CfgIdle /\ DdlIdle /\ UploadIdle /\ ReportIdle /\ IngestIdle

SpecRetry == InitRetry /\ [][RetryNext]_vars

InitExec == ExecInit /\ PollIdle /\ PipeIdle /\ ValIdle /\ BenchIdle
            /\ CmdIdle /\ RetryIdle /\ CfgIdle /\ DdlIdle /\ UploadIdle /\ ReportIdle /\ IngestIdle

\* every step of execute_query that can be taken is taken in the end: the
\* thread is scheduled, requests answer or time out, the sleep ends
SpecExec == InitExec /\ [][ExecNext]_vars /\ WF_vars(ExecNext)

InitConfig == CfgInit /\ PollIdle /\ PipeIdle /\ ValIdle /\ BenchIdle
              /\ CmdIdle /\ RetryIdle /\ ExecIdle /\ DdlIdle /\ UploadIdle /\ ReportIdle /\ IngestIdle

SpecConfig == InitConfig /\ [][CfgNext]_vars

InitDdl == DdlInit /\ PollIdle /\ PipeIdle /\ ValIdle /\ BenchIdle
           /\ CmdIdle /\ RetryIdle /\ ExecIdle /\ CfgIdle /\ UploadIdle /\ ReportIdle /\ IngestIdle

SpecDdl == InitDdl /\ [][DdlNext]_vars

InitUpload == UploadInit /\ PollIdle /\ PipeIdle /\ ValIdle /\ BenchIdle
              /\ CmdIdle /\ RetryIdle /\ ExecIdle /\ CfgIdle /\ DdlIdle /\ ReportIdle /\ IngestIdle

SpecUpload == InitUpload /\ [][UploadNext]_vars

InitReport == ReportInit /\ PollIdle /\ PipeIdle /\ ValIdle /\ BenchIdle
              /\ CmdIdle /\ RetryIdle /\ ExecIdle /\ CfgIdle /\ DdlIdle
              /\ UploadIdle /\ IngestIdle

SpecReport == InitReport /\ [][ReportNext]_vars

InitIngest == IngestInit /\ PollIdle /\ PipeIdle /\ ValIdle /\ BenchIdle
              /\ CmdIdle /\ RetryIdle /\ ExecIdle /\ CfgIdle /\ DdlIdle
              /\ ReportIdle /\ UploadIdle

SpecIngest == InitIngest /\ [][IngestNext]_vars

(***************************************************************************)
(* Properties of the poll loop.                                            *)
(***************************************************************************)
Json(state) == [kind |-> "json", jobState |-> state, cls |-> "-", msg |-> ""]

IsTerminalResponse(r) == r.kind = "json" /\ r.jobState \in {"COMPLETED", "FAILED", "CANCELED"}

\* the first n status responses were RUNNING and arrived within the deadline
RunningWithinDeadline(n) ==
    /\ Len(observed) >= n
    /\ \A i \in 1..n : observed[i] = Json("RUNNING") /\ elapsed_seen[i].recv <= timeout

\* C1: when the remote job reports RUNNING n times and then COMPLETED within
\* the deadline, poll does not return before the COMPLETED response, returns
\* the COMPLETED status on it, and has then issued exactly n+1 status requests.
C1_RunningThenCompleted ==
    \A n \in 0..MaxPolls :
        RunningWithinDeadline(n) =>
            /\ Len(observed) = n => poll_pc \in {"request", "sleep"}
            /\ ( /\ Len(observed) > n
                 /\ observed[n + 1] = Json("COMPLETED")
                 /\ elapsed_seen[n + 1].recv <= timeout )
               => /\ poll_pc = "returned"
                  /\ poll_result = [jobState |-> "COMPLETED", error |-> ""]
                  /\ Len(observed) = n + 1

C1_Witness ==
    /\ poll_pc = "returned"
    /\ observed = <<Json("RUNNING"), Json("RUNNING"), Json("COMPLETED")>>
    /\ elapsed_seen[3].recv <= timeout
    /\ poll_result.jobState = "COMPLETED"

\* C2 (as stated): when the deadline has elapsed before any status request
\* returned a terminal remote state (here: it had already elapsed when a
\* status request was sent, and no request raised), poll returns TIMEOUT and
\* does not raise.
C2_Original ==
    ( /\ poll_pc \in {"returned", "raised"}
      /\ \A i \in 1..Len(observed) : observed[i].kind = "json"
      /\ \E i \in 1..Len(observed) :
            /\ elapsed_seen[i].sent > timeout
            /\ \A j \in 1..(i - 1) : ~IsTerminalResponse(observed[j]) )
    => /\ poll_pc = "returned"
       /\ poll_result.jobState = "TIMEOUT"

\* C2 (amended): when a status request returns a non-terminal state and the
\* deadline has elapsed at that moment, poll returns TIMEOUT right there; a
\* poll that returns TIMEOUT has seen no terminal state and no exception; and
\* poll never raises.
C2_TimeoutAfterNonTerminal ==
    /\ poll_pc # "raised"
    /\ \A i \in 1..Len(observed) :
        ( /\ observed[i].kind = "json"
          /\ ~IsTerminalResponse(observed[i])
          /\ elapsed_seen[i].recv > timeout )
        => /\ poll_pc = "returned"
           /\ poll_result = [jobState |-> "TIMEOUT", error |-> ""]
           /\ Len(observed) = i
    /\ (poll_pc = "returned" /\ poll_result.jobState = "TIMEOUT")
        => \A i \in 1..Len(observed) :
              observed[i].kind = "json" /\ ~IsTerminalResponse(observed[i])

C2_Witness ==
    /\ poll_pc = "returned"
    /\ poll_result.jobState = "TIMEOUT"
    /\ Len(observed) = 2
    /\ elapsed_seen[2].recv > timeout

\* C3: a status request that raises a transport exception makes poll return
\* the ERROR state carrying the exception's text, at that request, and poll
\* never lets an exception reach its caller.
C3_ExceptionBecomesError ==
    /\ poll_pc # "raised"
    /\ \A i \in 1..Len(observed) :
          observed[i].kind = "exc"
          => /\ poll_pc = "returned"
             /\ poll_result = [jobState |-> "ERROR", error |-> ExcMessage(observed[i].cls)]
             /\ Len(observed) = i

C3_Witness ==
    /\ poll_pc = "returned"
    /\ Len(observed) = 2
    /\ observed[2].kind = "exc"
    /\ observed[2].cls = "ConnectionError"
    /\ poll_result = [jobState |-> "ERROR", error |-> "connection refused"]

(***************************************************************************)
(* Properties of the orchestrator.                                         *)
(***************************************************************************)
\* position of a step in the canonical order
CanonicalIndex(st) == CHOOSE i \in 1..Len(PIPELINE_STEPS) : PIPELINE_STEPS[i] = st

AllSucceeded == \A i \in 1..Len(step_results) : step_results[i].success

\* C4 (as stated): the requested steps are executed in the canonical relative
\* order, whatever the order in which they were given.
C4_CanonicalOrder ==
    \A i, j \in 1..Len(step_results) :
        i < j => CanonicalIndex(step_results[i].step) < CanonicalIndex(step_results[j].step)

C6_UploadNotRunWithoutPrincipal ==
    "hdfs.kerberized.principal" \notin config.set
    => /\ \A c \in 1..Len(commands) : commands[c] # "HDFS upload"
       /\ \A i \in 1..Len(step_results) :
             step_results[i].step = "upload"
             => /\ ~step_results[i].success
                /\ i = Len(step_results)
                /\ pipe_pc = "exited"
                /\ exit_code = 1

C6_Witness ==
    /\ config.loaded
    /\ "hdfs.kerberized.principal" \notin config.set
    /\ Len(step_results) = 2
    /\ step_results[1].success
    /\ step_results[2] = [step |-> "upload", success |-> FALSE]
    /\ commands = HandlerCommands(step_results[1].step)

RequiredKeys(step) ==
    CASE step = "data" -> {"data_generation.dsdgen_path"}
      [] step = "upload" -> {"hdfs.simple_auth.hadoop_conf",
                             "hdfs.kerberized.hadoop_conf",
                             "hdfs.kerberized.keytab",
                             "hdfs.kerberized.principal"}
      [] step \in {"ddl", "cross"} -> {"clusters.dremio_a.host",
                                       "clusters.dremio_b.host"}
      [] step = "benchmark" -> {"clusters.dremio_a.host", "clusters.dremio_b.host",
                                "pipeline.query_dir"}
      [] OTHER -> {}

ErrorEntry(key, step) ==
    CASE key = "data_generation.dsdgen_path" ->
            "data_generation.dsdgen_path is required for data generation step"
      [] key = "hdfs.simple_auth.hadoop_conf" ->
            "hdfs.simple_auth.hadoop_conf is required for upload step"
      [] key = "hdfs.kerberized.hadoop_conf" ->
            "hdfs.kerberized.hadoop_conf is required for upload step"
      [] key = "hdfs.kerberized.keytab" ->
            "hdfs.kerberized.keytab is required for upload step"
      [] key = "hdfs.kerberized.principal" ->
            "hdfs.kerberized.principal is required for upload step"
      [] key = "clusters.dremio_a.host" -> "clusters.dremio_a.host is required"
      [] key = "clusters.dremio_b.host" -> "clusters.dremio_b.host is required"
      [] OTHER -> "pipeline.query_dir is required for benchmark step"

\* the required settings of the step that the configuration does not give
MissingKeys == {k \in RequiredKeys(val_step) : config_data.leaf[k] # "SET"}

HasEntry(message) == \E i \in 1..Len(val_result.errors) : val_result.errors[i] = message

RowsOf(q) == {i \in 1..Len(results) : results[i].query_name = q}

\* C9: when a benchmark run over the queries Q with I iterations has finished,
\* the results hold exactly I x |Q| rows, I of them for each query, whether the
\* login, the submission or the polling of an execution succeeded or failed.
C9_OneRecordPerExecution ==
    bench_pc = "done"
    => /\ Len(results) = iterations * Len(queries)
       /\ \A n \in 1..Len(queries) :
            Cardinality(RowsOf(queries[n])) = iterations

\* C10: with a pool of more than one worker the token and the headers are
\* written at most once in a run, and never while another worker is between
\* sending a request with the headers and reading its answer.
C10_TokenWrittenOnce ==
    concurrency > 1 => (token_writes <= 1 /\ ~racing_write)


\* C11: a failed login of the benchmark step's client makes the step fail:
\* the run_benchmarks.py process ends with a non-zero status, so that
\* run_shell_command reports success = False to the orchestrator.
C11_AuthFailureFailsStep ==
    (bench_pc = "done" /\ login_failures > 0)
    => /\ bench_exit # 0
       /\ ~run_shell_command([kind |-> "exit", code |-> bench_exit,
                              stdout |-> <<>>, stderr |-> <<>>], TRUE).success

\* C12: once a login of the client has failed, the client sends no further
\* login request, whatever executions follow.
C12_NoLoginAfterFailure == ~relogin

\* rows of results with the given status
RowsWithStatus(status) == {i \in 1..Len(results) : results[i].status = status}

WorkersAt(pcs) == {w \in WorkerIds : worker[w].pc \in pcs}

\* C13: an execution requests the job profile exactly when the poll returned
\* COMPLETED: a profile request is in flight only for a COMPLETED job, the
\* number of profile requests is the number of executions whose poll returned
\* COMPLETED, and no row of another status carries profile metrics.
C13_ProfileIffCompleted ==
    /\ \A w \in WorkerIds : worker[w].pc = "profile" => worker[w].state = "COMPLETED"
    /\ profile_requests = Cardinality(RowsWithStatus("COMPLETED"))
                          + Cardinality(WorkersAt({"profile"}))
    /\ \A i \in 1..Len(results) : results[i].profiled => results[i].status = "COMPLETED"

C13_Witness ==
    /\ bench_pc = "done"
    /\ Len(results) = 2
    /\ RowsWithStatus("COMPLETED") # {}
    /\ RowsWithStatus("CANCELED") # {}
    /\ profile_requests = 1

\* C14: every (query, iteration) execution sends at most one submit request,
\* whatever state its job ends in, and yields at most one row: the executions
\* begun are never more than iteration x |Q|.
C14_AtMostOneSubmit ==
    /\ \A w \in WorkerIds :
          /\ worker[w].submits <= 1
          /\ worker[w].pc \in {"submit", "poll", "profile"} => worker[w].submits = 1
          /\ worker[w].pc \in {"idle", "login"} => worker[w].submits = 0
    /\ Len(results) + Cardinality(WorkersAt({"login", "submit", "poll", "profile"}))
          + Len(pool_queue) <= iteration * Len(queries)

C14_Witness ==
    /\ bench_pc = "done"
    /\ iterations = 2
    /\ \E i \in 1..Len(results) : results[i].status = "FAILED" /\ results[i].error = ""
    /\ Len(results) = iterations * Len(queries)

\* C15: a connection error of a status request is retried: poll gives up with
\* ERROR only after the request has failed more than once in a row.
C15_TransientFailureRetried ==
    (poll_pc = "returned" /\ poll_result.jobState = "ERROR")
    => /\ Len(observed) >= 2
       /\ observed[Len(observed) - 1].kind = "exc"

\* C17: every call of execute_query returns to its caller in the end (with a
\* status or an exception), whatever the remote job does.
C17_ExecuteEventuallyReturns == <>(exec_pc \in {"returned", "raised"})

\* the child process ended with status 0, or the operation returned
CommandSucceeded ==
    \/ cmd_kind = "shell" /\ cmd_outcome.kind = "exit" /\ cmd_outcome.code = 0
    \/ cmd_kind = "python" /\ cmd_outcome.kind = "return"

\* C18: the command runner never raises to its caller, and the result it
\* returns has success = true exactly for a zero exit status (an operation
\* that returned).
C18_NeverRaises ==
    /\ cmd_pc # "raised"
    /\ cmd_pc = "returned" => (cmd_result.success <=> CommandSucceeded)


(***************************************************************************)
(* Properties of the request-layer retry.                                  *)
(***************************************************************************)
FailedAttempts == {k \in 1..Len(attempts) : attempts[k] # "ok"}

LeafValue(data, leaf) ==
    CASE leaf = "clusters.dremio_a.host" -> data.clusters.host
      [] leaf = "clusters.dremio_a.port" -> data.clusters.port
      [] leaf = "pipeline.query_dir" -> data.pipeline.query_dir
      [] OTHER -> data.pipeline.timeout_seconds

EnvSet(leaf) == environ[EnvVar(leaf)] # "UNSET"

\* the environment's value for an integer setting is an integer
EnvParses(leaf) == leaf \in IntLeaves => int(environ[EnvVar(leaf)]).ok

\* the environment's value for a setting, converted to the setting's type
\* where it can be
EnvAsValue(leaf) ==
    IF leaf \in IntLeaves /\ int(environ[EnvVar(leaf)]).ok
    THEN int(environ[EnvVar(leaf)]).value
    ELSE environ[EnvVar(leaf)]

\* C19: applying the environment overrides to a configuration a second time,
\* under the same environment, leaves it as the first application left it.
C19_OverridesIdempotent ==
    applications >= 2 => loaded_data = resolved_once

C19_Witness ==
    /\ applications = 2
    /\ load_pc = "loaded"
    /\ cfg_file.doc.clusters.host = "file-host"
    /\ loaded_data.clusters.host = "env-host"
    /\ loaded_data.pipeline.timeout_seconds = "int:120"

C21_AbsentConfigIsSoftFailure ==
    (~config.loaded /\ pipe_pc = "exited")
    => (steps = ResolveSteps(args_steps) /\ (step_results # <<>> \/ unhandled))

\* C22: the ddl step succeeds only if the DDL against both clusters succeeds:
\* when a statement executed against cluster A or B could not be submitted or
\* ended in a state other than COMPLETED, run_ddl_generation_step returns
\* False.
C22_DdlFailureFailsStep ==
    (ddl_pc = "returned" /\ \E i \in 1..Len(ddl_log) : ~ddl_log[i].ok)
    => ~ddl_success

\* ---------------------------------------------------------------------------
\* Claims about the upload step
\* ---------------------------------------------------------------------------

\* C23: the first failed table upload aborts its (scale, format) unit: it is
\* the last upload of the run (no later table of the unit and no later unit
\* is uploaded) and the process ends with a non-zero status.
C23_FailedUploadAborts ==
    \A i \in 1..Len(uploads) :
        ~uploads[i].ok => (i = Len(uploads) /\ up_pc = "exited" /\ up_exit # 0)

\* a table of the first unit failed after an earlier one was uploaded, with a
\* second unit still to come
C23_Witness ==
    /\ Len(up_units) = 2
    /\ Len(uploads) = 2
    /\ uploads[1].ok /\ ~uploads[2].ok
    /\ uploads[2].unit = up_units[1]
    /\ up_pc = "exited"
    /\ up_exit = 1

\* C29: upload_to_simple_auth_hdfs and upload_to_kerberized_hdfs leave the
\* environment unchanged: whenever no upload function is running, on whatever
\* path the last one was left, HADOOP_USER_NAME and HADOOP_CONF_DIR hold the
\* values they had before the call, unset when they were unset.
C29_EnvironmentRestored ==
    up_pc \in {"main", "exited"} => os_environ = env_before

\* a simple-auth call that set both variables has ended on a failed upload,
\* where one variable was empty and the other unset before
C29_Witness ==
    /\ up_pc = "exited"
    /\ up_returns = 1
    /\ uploads # <<>>
    /\ ~uploads[Len(uploads)].ok
    /\ uploads[Len(uploads)].cluster = "simple_auth"
    /\ env_before["HADOOP_USER_NAME"] = ""
    /\ env_before["HADOOP_CONF_DIR"] = "UNSET"
    /\ os_environ = env_before

\* ---------------------------------------------------------------------------
\* Claims about the report
\* ---------------------------------------------------------------------------

\* C24: the comparison of a summary with itself gives, for every query whose
\* baseline mean is not zero, a zero absolute and a zero percentage delta,
\* and for every query whose baseline mean is zero an undefined (NaN)
\* percentage delta.
C24_SelfComparisonIsZero ==
    (rep_pc = "returned" /\ df_b = df_a)
    => \A key \in DOMAIN comparison :
          IF IsZero(summary_a[key])
          THEN comparison[key].time_diff_pct.kind = "nan"
          ELSE IsZero(comparison[key].time_diff)
               /\ IsZero(comparison[key].time_diff_pct)

\* ---------------------------------------------------------------------------
\* Further claims about the poll loop
\* ---------------------------------------------------------------------------

\* C25: every value poll returns carries one of the states COMPLETED, FAILED,
\* CANCELED, TIMEOUT, ERROR; when the last status response held RUNNING, or
\* no jobState at all, the value returned is TIMEOUT.
C25_ReturnsTerminalState ==
    poll_pc = "returned"
    => /\ poll_result.jobState \in {"COMPLETED", "FAILED", "CANCELED", "TIMEOUT", "ERROR"}
       /\ observed # <<>>
       /\ LET last == observed[Len(observed)]
          IN  /\ (last.kind = "json" /\ ~IsTerminalResponse(last))
                 => poll_result.jobState = "TIMEOUT"
              /\ last.kind = "exc" => poll_result.jobState = "ERROR"

\* a poll has returned after a response without jobState
C25_Witness ==
    /\ poll_pc = "returned"
    /\ Len(observed) = 2
    /\ observed[1] = Json("RUNNING")
    /\ observed[2] = Json("NONE")
    /\ poll_result.jobState = "TIMEOUT"

\* C26: a terminal remote state takes precedence over the deadline: a poll
\* that has ended has sent at least one status request, whatever the timeout,
\* and a response holding COMPLETED, FAILED or CANCELED is returned as that
\* state even when it arrives after the deadline has elapsed.
C26_TerminalBeforeDeadline ==
    /\ poll_pc \in {"returned", "raised"} => Len(observed) >= 1
    /\ \A i \in 1..Len(observed) :
          IsTerminalResponse(observed[i])
          => /\ poll_pc = "returned"
             /\ poll_result = [jobState |-> observed[i].jobState, error |-> ""]
             /\ Len(observed) = i

\* with timeout 0, the first response arrives late and holds COMPLETED
C26_Witness ==
    /\ timeout = 0
    /\ poll_pc = "returned"
    /\ Len(observed) = 1
    /\ observed[1] = Json("COMPLETED")
    /\ elapsed_seen[1].recv > timeout
    /\ poll_result.jobState = "COMPLETED"

\* ---------------------------------------------------------------------------
\* Further claims about the benchmark driver
\* ---------------------------------------------------------------------------

\* the step sends the POST /sql request of the execution of pool thread w
SubmitSent(w) == worker'[w].submits = worker[w].submits + 1

\* C27: no submit and no status request is sent by a client that holds no
\* token: a step that sends the submit request of an execution, or after
\* which the execution is polling, leaves the token set, and the step in
\* which a login fails sends no submit request.
C27_NoRequestWithoutToken ==
    [][\A w \in WorkerIds :
          /\ SubmitSent(w) => (token' # "None" /\ login_failures' = login_failures)
          /\ worker'[w].pc \in {"poll", "profile"} => token' # "None"]_vars

\* a login has failed, and a later execution has logged in and is polling
C27_Witness ==
    /\ login_failures = 1
    /\ token # "None"
    /\ token_writes = 1
    /\ \E w \in WorkerIds : worker[w].pc = "poll" /\ worker[w].submits = 1

\* pool threads that are running a query execution
InFlight == {w \in WorkerIds : worker[w].pc # "idle"}

\* C28: iterations are separated by a barrier and the pool is bounded: at no
\* time are more than `concurrency` executions in flight, and the tasks of
\* the next iteration are handed to the pool only when every execution of
\* the iteration before has returned.
C28_IterationBarrier ==
    /\ [](Cardinality(InFlight) <= concurrency)
    /\ [][iteration' # iteration
          => (iteration' = iteration + 1 /\ InFlight = {} /\ pool_queue = <<>>)]_vars

\* the second iteration runs with both pool threads busy, after the two
\* executions of the first one have returned
C28_Witness ==
    /\ concurrency = 2
    /\ iteration = 2
    /\ Len(queries) = 2
    /\ Len(results) = 2
    /\ Cardinality(InFlight) = 2

\* whether some ingest_file call for file f returned True
Succeeded(f) == \E i \in 1..Len(ing_calls[f]) : ing_calls[f][i]

\* how many times file f is counted: once by successful_ingestions when a
\* call for it returned True, and once per entry of failed_ingestions
TimesCounted(f) ==
    (IF Succeeded(f) THEN 1 ELSE 0)
    + Cardinality({i \in 1..Len(failed_ingestions) : failed_ingestions[i] = f})

\* at most max_retries attempts per file, none after a success
AttemptsStopAtSuccess ==
    \A f \in 1..total_files :
        /\ Len(ing_calls[f]) <= env_max_retries
        /\ \A i \in 1..(Len(ing_calls[f]) - 1) : ~ing_calls[f][i]

\* C30 as stated: when the process has exited, every file was attempted at
\* most max_retries times and not after its first success, successes plus
\* failures equal the number of files, and the exit status is non-zero if
\* and only if at least one file failed.
C30_ExitNonZeroIffFileFailed ==
    ing_pc = "exited"
    => /\ AttemptsStopAtSuccess
       /\ successful_ingestions + Len(failed_ingestions) = total_files
       /\ (ing_exit # 0 <=> failed_ingestions # <<>>)

\* C30, amended: every file is attempted at most max_retries times and not
\* after its first success; no file is counted twice, a file whose turn of
\* the loop has ended is counted exactly once and a file whose turn has not
\* begun is not counted; a run that reaches the summary has counted every
\* file (successes + failures = number of files) and exits non-zero if and
\* only if a file failed; a run ended by a critical error exits with status
\* 1 whatever was counted; status 0 means that every file succeeded.
C30_FilesCountedOnce ==
    /\ AttemptsStopAtSuccess
    /\ successful_ingestions = Cardinality({f \in 1..total_files : Succeeded(f)})
    /\ \A f \in 1..total_files :
        /\ TimesCounted(f) <= 1
        /\ f <= ing_index => TimesCounted(f) = 1
        /\ f > ing_index + 1 => (TimesCounted(f) = 0 /\ ing_calls[f] = <<>>)
    /\ (ing_pc = "exited" /\ ing_error = "none")
       => /\ successful_ingestions + Len(failed_ingestions) = total_files
          /\ (ing_exit # 0 <=> failed_ingestions # <<>>)
    /\ (ing_pc = "exited" /\ ing_error # "none") => ing_exit = 1
    /\ ing_exit = 0 => (total_files >= 1 /\ successful_ingestions = total_files)

\* a run that reached the summary with one file ingested on a retry and
\* another failed after max_retries attempts
C30_Witness ==
    /\ ing_pc = "exited"
    /\ ing_error = "none"
    /\ \E f, g \in 1..total_files :
        /\ Succeeded(f) /\ Len(ing_calls[f]) >= 2
        /\ ~Succeeded(g) /\ Len(ing_calls[g]) = env_max_retries
        /\ \E i \in 1..Len(failed_ingestions) : failed_ingestions[i] = g

====
